---------------------------- MODULE Spec2Model ----------------------------
(***************************************************************************)
(* SciPathBench: the bidirectional BFS ground-truth solver                 *)
(* (src/core/graph_search.py), the web exploration session                 *)
(* (src/agents/web_human_agent.py) and the LLM agent's search loop         *)
(* (src/llm_agent.py), each run against a data provider whose answers      *)
(* (neighbour lists, metadata availability) are fixed when a run starts.   *)
(***************************************************************************)
EXTENDS Integers, Sequences, FiniteSets, TLC

\* Bounds of the model.
NumNodes == 4
MaxDepthBound == 3
MaxTurnsBound == 3
MaxRuns == 2
NumStarts == 2
MaxClock == 3
NumThreads == 3

Nodes == 1 .. NumNodes

VARIABLES
    \* the data provider and the task
    nbrs,          \* get_neighbors: node -> ordered list of node ids
    meta,          \* nodes for which get_paper_by_id returns metadata
    failing,       \* nodes whose work request fails inside get_neighbors
    raising,       \* provider calls that raise: <<"paper", id>>, <<"neighbors", id>>
    start_id, end_id,
    \* GraphSearch.find_shortest_path_bfs
    max_depth,     \* BFS_MAX_DEPTH, as a parameter of the run
    bfs_pc, round, level_left,
    q_fwd, visited_fwd, q_bwd, visited_bwd,
    bfs_result, fetches,
    \* WebHumanAgent and the web server's record of its session
    graph_nodes,   \* PaperGraph.nodes: node id -> node_type
    graph_edges,   \* PaperGraph.edges: list of <<source, target>>
    agent_path,    \* PaperGraph.agent_path
    visited_nodes, frontier, max_turns, current_turn, game_active,
    init_result,   \* what initialize_game returned ("none" before the call)
    web_result,    \* what the last make_choice returned
    session_result, \* web_server.py session["result"]: the game-complete result
    last_message,  \* type of the last message sent to the web client
    \* LLMAgent.find_path
    llm_pc,        \* "new" before the call, "loop" in the search loop, "done"
    llm_max_turns, \* the max_turns argument
    llm_turn,      \* iterations of "for turn in range(max_turns)" begun so far
    llm_nodes, llm_edges, llm_path, llm_visited, llm_frontier,
    llm_last,      \* how the last iteration ended
    llm_runs,      \* find_path calls begun on the agent object
    llm_result,    \* the pair find_path returned
    \* OpenAlexClient._make_request
    req_pc,        \* "idle" before the call, "loop" in the while loop, "returned"
    attempts,      \* the local counter of failed attempts
    responses,     \* outcome of each session.get issued so far, in order
    req_result,    \* the value returned to the caller
    \* make_choice calls in flight on one WebHumanAgent (one per websocket
    \* connection using the session's client id)
    call_pc,       \* per connection: "idle", "neighbors" (awaiting
                   \* get_neighbors), "papers" (awaiting get_many_papers),
                   \* "returned"
    call_paper,    \* per connection: the paper_id of its call
    accepted,      \* the paper ids of the accepted choices, in order
    terminal_results, \* game-complete results handle_interactive_choice got
    \* start_llm_run and run_llm_agent_background (web_server.py)
    now,           \* time.time(), in half seconds
    run_pc,        \* per start request: "idle", "broadcast" (record stored,
                   \* awaiting manager.broadcast), "scheduled" (background
                   \* task created), "done", "failed"
    run_key,       \* per start request: the run_id it computed
    current_runs,  \* run_id -> the record stored under it (NoRecord: none)
    served,        \* per start request: the owner of the record its
                   \* background task worked on (0: not yet)
    agent_calls,   \* per agent instance: the find_path calls made on it
    \* RunStorage (persistence.py)
    file_runs,     \* the "runs" list in the storage file
    file_ok,       \* the storage file holds a complete JSON document
    initial_runs,  \* the "runs" list before the first add_run
    lock,          \* the thread holding RunStorage.lock (0: free)
    lock_order,    \* the threads in the order they acquired the lock
    add_pc,        \* per thread: "idle", "read", "write", "returned"
    add_data,      \* per thread: data["runs"] as _read_data returned it
    add_result     \* per thread: what add_run returned ("none": not yet)

providerVars == <<nbrs, meta, failing, raising, start_id, end_id>>
bfsVars == <<max_depth, bfs_pc, round, level_left, q_fwd, visited_fwd,
             q_bwd, visited_bwd, bfs_result, fetches>>
webVars == <<graph_nodes, graph_edges, agent_path, visited_nodes, frontier,
             max_turns, current_turn, game_active, init_result, web_result,
             session_result, last_message>>
llmVars == <<llm_pc, llm_max_turns, llm_turn, llm_nodes, llm_edges, llm_path,
             llm_visited, llm_frontier, llm_last, llm_runs, llm_result>>
reqVars == <<req_pc, attempts, responses, req_result>>
callVars == <<call_pc, call_paper, accepted, terminal_results>>
runVars == <<now, run_pc, run_key, current_runs, served, agent_calls>>
storeVars == <<file_runs, file_ok, initial_runs, lock, lock_order, add_pc,
               add_data, add_result>>
serverVars == <<callVars, runVars, storeVars>>
vars == <<providerVars, bfsVars, webVars, llmVars, reqVars, serverVars>>

(***************************************************************************)
(* The provider's graph.  A graph is a set of unordered pairs and a mode:  *)
(* "both" lists every edge at both ends, "up" only at the lower end,       *)
(* "down" only at the higher end (citations are directed), "mixed" lists   *)
(* an edge at the higher end only when its two ids differ in parity.       *)
(***************************************************************************)
Pairs == {e \in Nodes \X Nodes : e[1] < e[2]}
Modes == {"both", "up", "down", "mixed"}

Listed(E, mode, u) ==
    {v \in Nodes : \/ <<u, v>> \in E /\ mode \in {"both", "up", "mixed"}
                   \/ <<v, u>> \in E /\ mode \in {"both", "down"}
                   \/ <<v, u>> \in E /\ mode = "mixed" /\ (u + v) % 2 = 1}

RECURSIVE Ascending(_)
Ascending(S) ==
    IF S = {} THEN <<>>
    ELSE LET m == CHOOSE x \in S : \A y \in S : x <= y
         IN <<m>> \o Ascending(S \ {m})

RECURSIVE Descending(_)
Descending(S) ==
    IF S = {} THEN <<>>
    ELSE LET m == CHOOSE x \in S : \A y \in S : x >= y
         IN <<m>> \o Descending(S \ {m})

NeighborLists(E, mode) ==
    [u \in Nodes |-> IF mode = "down" THEN Descending(Listed(E, mode, u))
                     ELSE Ascending(Listed(E, mode, u))]

Range(s) == {s[k] : k \in 1 .. Len(s)}

Reverse(s) == [k \in 1 .. Len(s) |-> s[Len(s) + 1 - k]]

\* openalex_client.py:56-121: _make_request gives None when the request
\* fails (404, retries used up, HTTP error), the work otherwise.
make_request_fails(id) == id \in failing

\* OpenAlexClient.get_neighbors: the list the provider returns for a node,
\* [] when the work could not be fetched (openalex_client.py:216-218).
get_neighbors(id) == IF make_request_fails(id) THEN <<>> ELSE nbrs[id]

\* OpenAlexClient.get_paper_by_id: TRUE when metadata comes back, FALSE for None.
get_paper_by_id(id) == id \in meta

\* A provider call that ends in an exception instead of a value (a cache or
\* decoding error, an executor that was shut down): get_paper_by_id(id),
\* get_neighbors(id).
raises_paper(id) == <<"paper", id>> \in raising
raises_neighbors(id) == <<"neighbors", id>> \in raising

ProviderInit ==
    /\ \E E \in SUBSET Pairs, mode \in Modes : nbrs = NeighborLists(E, mode)
    /\ meta = Nodes
    /\ failing = {}
    /\ raising = {}
    /\ start_id = 1
    /\ end_id \in Nodes

\* The test that lets through a run whose end paper has no metadata.
MissingStartPaper == ~get_paper_by_id(start_id)

\* web_human_agent.py:91, llm_agent.py:77: "if not start_paper or not
\* end_paper", after both papers were asked of the provider.
MissingStartOrEndPaper ==
    ~get_paper_by_id(start_id) \/ ~get_paper_by_id(end_id)

(***************************************************************************)
(* GraphSearch.find_shortest_path_bfs and GraphSearch._bfs_step.           *)
(* A visited map is a function from its keys to the stored route.          *)
(* The value returned is a record: kind "list" for a bare path, "pair"     *)
(* for the tuple (path, 0), "none" for None; "running" before the return.  *)
(***************************************************************************)
Running == [kind |-> "running", path |-> <<>>]
ReturnNone == [kind |-> "none", path |-> <<>>]
ReturnList(p) == [kind |-> "list", path |-> p]
ReturnPair(p) == [kind |-> "pair", path |-> p]

\* Stitch with the meeting node taken from both sides' routes.
StitchMeetingTwice(path, path_other, backward) ==
    IF ~backward THEN path \o <<path_other[Len(path_other)]>> \o Reverse(path_other)
    ELSE path_other \o <<path_other[Len(path_other)]>> \o Reverse(path)

\* graph_search.py:55-59: the two partial routes joined at the meeting edge.
Stitch(path, path_other, backward) ==
    IF ~backward THEN path \o Reverse(path_other)
    ELSE path_other \o Reverse(path)

\* ScanNeighbors going through the whole list and keeping the last neighbour
\* found in the other side's visited map.
RECURSIVE ScanNeighborsLastHit(_, _, _, _, _, _, _)
ScanNeighborsLastHit(neighbors, k, path, visited_self, visited_other, queue, backward) ==
    IF k > Len(neighbors)
    THEN [found |-> <<>>, visited |-> visited_self, queue |-> queue]
    ELSE LET neighbor_id == neighbors[k]
             new == /\ neighbor_id \notin DOMAIN visited_other
                    /\ neighbor_id \notin DOMAIN visited_self
             rest == ScanNeighborsLastHit(neighbors, k + 1, path,
                        IF new
                        THEN visited_self @@ (neighbor_id :> (path \o <<neighbor_id>>))
                        ELSE visited_self,
                        visited_other,
                        IF new THEN Append(queue, neighbor_id) ELSE queue,
                        backward)
         IN IF neighbor_id \in DOMAIN visited_other /\ rest.found = <<>>
            THEN [rest EXCEPT
                    !.found = Stitch(path, visited_other[neighbor_id], backward)]
            ELSE rest

\* ScanNeighbors storing the expanded node's route for a new neighbour,
\* without the neighbour appended.
RECURSIVE ScanNeighborsStoringParentRoute(_, _, _, _, _, _, _)
ScanNeighborsStoringParentRoute(neighbors, k, path, visited_self, visited_other, queue, backward) ==
    IF k > Len(neighbors)
    THEN [found |-> <<>>, visited |-> visited_self, queue |-> queue]
    ELSE LET neighbor_id == neighbors[k] IN
         IF neighbor_id \in DOMAIN visited_other
         THEN [found |-> Stitch(path, visited_other[neighbor_id], backward),
               visited |-> visited_self, queue |-> queue]
         ELSE IF neighbor_id \notin DOMAIN visited_self
         THEN ScanNeighborsStoringParentRoute(neighbors, k + 1, path,
                            visited_self @@ (neighbor_id :> path),
                            visited_other, Append(queue, neighbor_id), backward)
         ELSE ScanNeighborsStoringParentRoute(neighbors, k + 1, path, visited_self,
                            visited_other, queue, backward)

\* ScanNeighbors testing the own side's map before the other side's: a
\* neighbour new to this side is recorded even when the other side has it.
RECURSIVE ScanNeighborsRecordingFirst(_, _, _, _, _, _, _)
ScanNeighborsRecordingFirst(neighbors, k, path, visited_self, visited_other, queue, backward) ==
    IF k > Len(neighbors)
    THEN [found |-> <<>>, visited |-> visited_self, queue |-> queue]
    ELSE LET neighbor_id == neighbors[k]
             visited_now ==
                 IF neighbor_id \notin DOMAIN visited_self
                 THEN visited_self @@ (neighbor_id :> (path \o <<neighbor_id>>))
                 ELSE visited_self
             queue_now ==
                 IF neighbor_id \notin DOMAIN visited_self
                 THEN Append(queue, neighbor_id) ELSE queue
         IN IF neighbor_id \in DOMAIN visited_other
            THEN [found |-> Stitch(path, visited_other[neighbor_id], backward),
                  visited |-> visited_now, queue |-> queue_now]
            ELSE ScanNeighborsRecordingFirst(neighbors, k + 1, path, visited_now,
                                             visited_other, queue_now, backward)

\* graph_search.py:52-64: the scan of one node's neighbour list from index k.
\* Gives the path found (<<>> when none), the visited map and the queue.
RECURSIVE ScanNeighbors(_, _, _, _, _, _, _)
ScanNeighbors(neighbors, k, path, visited_self, visited_other, queue, backward) ==
    IF k > Len(neighbors)
    THEN [found |-> <<>>, visited |-> visited_self, queue |-> queue]
    ELSE LET neighbor_id == neighbors[k] IN
         IF neighbor_id \in DOMAIN visited_other
         THEN [found |-> Stitch(path, visited_other[neighbor_id], backward),
               visited |-> visited_self, queue |-> queue]
         ELSE IF neighbor_id \notin DOMAIN visited_self
         THEN ScanNeighbors(neighbors, k + 1, path,
                            visited_self @@ (neighbor_id :> (path \o <<neighbor_id>>)),
                            visited_other, Append(queue, neighbor_id), backward)
         ELSE ScanNeighbors(neighbors, k + 1, path, visited_self, visited_other,
                            queue, backward)

BfsInit ==
    /\ max_depth \in 1 .. MaxDepthBound
    /\ bfs_pc = "start"
    /\ round = 0
    /\ level_left = 0
    /\ q_fwd = <<>>
    /\ visited_fwd = <<>>
    /\ q_bwd = <<>>
    /\ visited_bwd = <<>>
    /\ bfs_result = Running
    /\ fetches = 0

\* graph_search.py:18-19: the trivial case returns the tuple ([start_id], 0).
BfsTrivial ==
    /\ bfs_pc = "start"
    /\ start_id = end_id
    /\ bfs_result' = ReturnPair(<<start_id>>)
    /\ bfs_pc' = "done"
    /\ UNCHANGED <<max_depth, round, level_left, q_fwd, visited_fwd, q_bwd,
                   visited_bwd, fetches>>
    /\ UNCHANGED <<serverVars, providerVars, reqVars, webVars, llmVars>>

\* graph_search.py:21-30: both sides are seeded and the first forward step
\* is entered (level_size = len(queue)).
BfsBegin ==
    /\ bfs_pc = "start"
    /\ start_id # end_id
    /\ q_fwd' = <<start_id>>
    /\ visited_fwd' = (start_id :> <<start_id>>)
    /\ q_bwd' = <<end_id>>
    /\ visited_bwd' = (end_id :> <<end_id>>)
    /\ round' = 0
    /\ IF 0 < max_depth
       THEN bfs_pc' = "fwd" /\ level_left' = 1 /\ bfs_result' = bfs_result
       ELSE bfs_pc' = "done" /\ level_left' = 0 /\ bfs_result' = ReturnNone
    /\ UNCHANGED <<max_depth, fetches>>
    /\ UNCHANGED <<serverVars, providerVars, reqVars, webVars, llmVars>>

\* BfsExpandFwd looping until the queue is empty instead of level_size times.
BfsExpandFwdWholeQueue ==
    /\ bfs_pc = "fwd"
    /\ level_left > 0
    /\ LET current_id == Head(q_fwd)
           r == ScanNeighbors(get_neighbors(current_id), 1, visited_fwd[current_id],
                              visited_fwd, visited_bwd, Tail(q_fwd), FALSE)
       IN /\ fetches' = fetches + 1
          /\ q_fwd' = r.queue
          /\ visited_fwd' = r.visited
          /\ IF r.found # <<>>
             THEN /\ bfs_result' = ReturnList(r.found)
                  /\ bfs_pc' = "done"
                  /\ level_left' = 0
             ELSE /\ bfs_result' = bfs_result
                  /\ bfs_pc' = bfs_pc
                  /\ level_left' = Len(r.queue)
    /\ UNCHANGED <<max_depth, round, q_bwd, visited_bwd>>
    /\ UNCHANGED <<serverVars, providerVars, reqVars, webVars, llmVars>>

\* BfsExpandFwd giving the search up when the fetch of the popped node failed.
BfsExpandFwdAbortingOnFailure ==
    /\ bfs_pc = "fwd"
    /\ level_left > 0
    /\ LET current_id == Head(q_fwd)
           r == ScanNeighbors(get_neighbors(current_id), 1, visited_fwd[current_id],
                              visited_fwd, visited_bwd, Tail(q_fwd), FALSE)
       IN /\ fetches' = fetches + 1
          /\ q_fwd' = r.queue
          /\ visited_fwd' = r.visited
          /\ IF make_request_fails(current_id)
             THEN /\ bfs_result' = ReturnNone
                  /\ bfs_pc' = "done"
                  /\ level_left' = 0
             ELSE IF r.found # <<>>
             THEN /\ bfs_result' = ReturnList(r.found)
                  /\ bfs_pc' = "done"
                  /\ level_left' = 0
             ELSE /\ bfs_result' = bfs_result
                  /\ bfs_pc' = bfs_pc
                  /\ level_left' = level_left - 1
    /\ UNCHANGED <<max_depth, round, q_bwd, visited_bwd>>
    /\ UNCHANGED <<serverVars, providerVars, reqVars, webVars, llmVars>>

\* graph_search.py:46-64: one iteration of the level loop of _bfs_step:
\* pop the head, fetch its neighbours, scan them.
BfsExpandFwd ==
    /\ bfs_pc = "fwd"
    /\ level_left > 0
    /\ LET current_id == Head(q_fwd)
           r == ScanNeighbors(get_neighbors(current_id), 1, visited_fwd[current_id],
                              visited_fwd, visited_bwd, Tail(q_fwd), FALSE)
       IN /\ fetches' = fetches + 1
          /\ q_fwd' = r.queue
          /\ visited_fwd' = r.visited
          /\ IF r.found # <<>>
             THEN /\ bfs_result' = ReturnList(r.found)
                  /\ bfs_pc' = "done"
                  /\ level_left' = 0
             ELSE /\ bfs_result' = bfs_result
                  /\ bfs_pc' = bfs_pc
                  /\ level_left' = level_left - 1
    /\ UNCHANGED <<max_depth, round, q_bwd, visited_bwd>>
    /\ UNCHANGED <<serverVars, providerVars, reqVars, webVars, llmVars>>

BfsExpandBwd ==
    /\ bfs_pc = "bwd"
    /\ level_left > 0
    /\ LET current_id == Head(q_bwd)
           r == ScanNeighbors(get_neighbors(current_id), 1, visited_bwd[current_id],
                              visited_bwd, visited_fwd, Tail(q_bwd), TRUE)
       IN /\ fetches' = fetches + 1
          /\ q_bwd' = r.queue
          /\ visited_bwd' = r.visited
          /\ IF r.found # <<>>
             THEN /\ bfs_result' = ReturnList(r.found)
                  /\ bfs_pc' = "done"
                  /\ level_left' = 0
             ELSE /\ bfs_result' = bfs_result
                  /\ bfs_pc' = bfs_pc
                  /\ level_left' = level_left - 1
    /\ UNCHANGED <<max_depth, round, q_fwd, visited_fwd>>
    /\ UNCHANGED <<serverVars, providerVars, reqVars, webVars, llmVars>>

\* BfsFwdStepReturns handing over to the backward side after any node, not
\* only when the level is finished.
BfsFwdStepReturnsInterleaved ==
    /\ bfs_pc = "fwd"
    /\ level_left >= 0
    /\ bfs_pc' = "bwd"
    /\ level_left' = Len(q_bwd)
    /\ UNCHANGED <<max_depth, round, q_fwd, visited_fwd, q_bwd, visited_bwd,
                   bfs_result, fetches>>
    /\ UNCHANGED <<serverVars, providerVars, reqVars, webVars, llmVars>>

\* graph_search.py:43-44, 65 and 30-34: the forward step returns None (empty
\* queue or level finished); the backward step is entered.
BfsFwdStepReturns ==
    /\ bfs_pc = "fwd"
    /\ level_left = 0
    /\ bfs_pc' = "bwd"
    /\ level_left' = Len(q_bwd)
    /\ UNCHANGED <<max_depth, round, q_fwd, visited_fwd, q_bwd, visited_bwd,
                   bfs_result, fetches>>
    /\ UNCHANGED <<serverVars, providerVars, reqVars, webVars, llmVars>>

\* BfsBwdStepReturns stopping one round before max_depth.
BfsBwdStepReturnsRoundShort ==
    /\ bfs_pc = "bwd"
    /\ level_left = 0
    /\ round' = round + 1
    /\ IF round + 1 < max_depth - 1
       THEN bfs_pc' = "fwd" /\ level_left' = Len(q_fwd) /\ bfs_result' = bfs_result
       ELSE bfs_pc' = "done" /\ level_left' = 0 /\ bfs_result' = ReturnNone
    /\ UNCHANGED <<max_depth, q_fwd, visited_fwd, q_bwd, visited_bwd, fetches>>
    /\ UNCHANGED <<serverVars, providerVars, reqVars, webVars, llmVars>>

\* BfsBwdStepReturns running one round more than max_depth.
BfsBwdStepReturnsExtraRound ==
    /\ bfs_pc = "bwd"
    /\ level_left = 0
    /\ round' = round + 1
    /\ IF round + 1 <= max_depth
       THEN bfs_pc' = "fwd" /\ level_left' = Len(q_fwd) /\ bfs_result' = bfs_result
       ELSE bfs_pc' = "done" /\ level_left' = 0 /\ bfs_result' = ReturnNone
    /\ UNCHANGED <<max_depth, q_fwd, visited_fwd, q_bwd, visited_bwd, fetches>>
    /\ UNCHANGED <<serverVars, providerVars, reqVars, webVars, llmVars>>

\* graph_search.py:43-44, 65 and 28, 34-38: the backward step returns None;
\* the next round starts, or the rounds are used up and None is returned.
BfsBwdStepReturns ==
    /\ bfs_pc = "bwd"
    /\ level_left = 0
    /\ round' = round + 1
    /\ IF round + 1 < max_depth
       THEN bfs_pc' = "fwd" /\ level_left' = Len(q_fwd) /\ bfs_result' = bfs_result
       ELSE bfs_pc' = "done" /\ level_left' = 0 /\ bfs_result' = ReturnNone
    /\ UNCHANGED <<max_depth, q_fwd, visited_fwd, q_bwd, visited_bwd, fetches>>
    /\ UNCHANGED <<serverVars, providerVars, reqVars, webVars, llmVars>>


(***************************************************************************)
(* PaperGraph (src/core/paper_graph.py).                                   *)
(***************************************************************************)
EmptyMap == [x \in {} |-> ""]

\* paper_graph.py:12-23: nothing is stored when the metadata is missing.
add_node(nodes, paper_id, has_data, node_type) ==
    IF ~has_data THEN nodes ELSE (paper_id :> node_type) @@ nodes

\* paper_graph.py:25-29: the edge dict is appended unless already listed.
add_edge(edges, source, target) ==
    IF \E k \in 1 .. Len(edges) : edges[k] = <<source, target>> THEN edges
    ELSE Append(edges, <<source, target>>)

(***************************************************************************)
(* WebHumanAgent (src/agents/web_human_agent.py).  The frontier dict is    *)
(* modelled by its key set; a result dict by a record with one field per   *)
(* key ("turns" holds turns_used or current_turn, "path" holds path or     *)
(* current_path).  start_id and end_id are the task's ids, which           *)
(* initialize_game copies into the agent unchanged.                        *)
(***************************************************************************)
make_result(success, error, complete, won, reason, turns, path) ==
    [success |-> success, error |-> error, game_complete |-> complete,
     won |-> won, reason |-> reason, turns |-> turns, path |-> path]

NoCall == make_result(FALSE, "no call", FALSE, FALSE, "", 0, <<>>)

\* DisplayPath leaving the end node out of the path it shows.
DisplayPathWithoutEnd(path, nodes) ==
    SelectSeq(path, LAMBDA pid : pid \in DOMAIN nodes /\ pid # end_id)

\* web_human_agent.py:182-190, 246-254: the ids of agent_path that are graph nodes.
DisplayPath(path, nodes) ==
    SelectSeq(path, LAMBDA pid : pid \in DOMAIN nodes)

\* web_human_agent.py:116-123: the loop over the start node's neighbours.
RECURSIVE InitNeighbors(_, _, _)
InitNeighbors(initial_neighbors, k, st) ==
    IF k > Len(initial_neighbors) THEN st
    ELSE LET neighbor_id == initial_neighbors[k]
             edges == add_edge(st.edges, start_id, neighbor_id)
         IN IF neighbor_id \notin st.visited
            THEN InitNeighbors(initial_neighbors, k + 1,
                    [edges |-> edges,
                     visited |-> st.visited \cup {neighbor_id},
                     nodes |-> add_node(st.nodes, neighbor_id,
                                        get_paper_by_id(neighbor_id), "referenced"),
                     frontier |-> IF get_paper_by_id(neighbor_id)
                                  THEN st.frontier \cup {neighbor_id}
                                  ELSE st.frontier])
            ELSE InitNeighbors(initial_neighbors, k + 1, [st EXCEPT !.edges = edges])

\* ChoiceNeighbors testing a neighbour against the frontier, not visited_nodes.
RECURSIVE ChoiceNeighborsByFrontier(_, _, _, _)
ChoiceNeighborsByFrontier(neighbors, k, paper_id, st) ==
    IF k > Len(neighbors) THEN st
    ELSE LET neighbor_id == neighbors[k]
             edges == add_edge(st.edges, paper_id, neighbor_id)
         IN IF neighbor_id \notin st.frontier /\ neighbor_id # end_id
            THEN ChoiceNeighborsByFrontier(neighbors, k + 1, paper_id,
                    [edges |-> edges,
                     visited |-> st.visited \cup {neighbor_id},
                     nodes |-> add_node(st.nodes, neighbor_id,
                                        get_paper_by_id(neighbor_id), "referenced"),
                     frontier |-> IF get_paper_by_id(neighbor_id)
                                  THEN st.frontier \cup {neighbor_id}
                                  ELSE st.frontier])
            ELSE ChoiceNeighborsByFrontier(neighbors, k + 1, paper_id,
                                 [st EXCEPT !.edges = edges])

\* web_human_agent.py:211-219: the loop over the chosen node's neighbours.
RECURSIVE ChoiceNeighbors(_, _, _, _)
ChoiceNeighbors(neighbors, k, paper_id, st) ==
    IF k > Len(neighbors) THEN st
    ELSE LET neighbor_id == neighbors[k]
             edges == add_edge(st.edges, paper_id, neighbor_id)
         IN IF neighbor_id \notin st.visited /\ neighbor_id # end_id
            THEN ChoiceNeighbors(neighbors, k + 1, paper_id,
                    [edges |-> edges,
                     visited |-> st.visited \cup {neighbor_id},
                     nodes |-> add_node(st.nodes, neighbor_id,
                                        get_paper_by_id(neighbor_id), "referenced"),
                     frontier |-> IF get_paper_by_id(neighbor_id)
                                  THEN st.frontier \cup {neighbor_id}
                                  ELSE st.frontier])
            ELSE ChoiceNeighbors(neighbors, k + 1, paper_id,
                                 [st EXCEPT !.edges = edges])

\* web_human_agent.py:15-27: the agent as constructed.
WebInit ==
    /\ graph_nodes = EmptyMap
    /\ graph_edges = <<>>
    /\ agent_path = <<>>
    /\ visited_nodes = {}
    /\ frontier = {}
    /\ max_turns = 0
    /\ current_turn = 0
    /\ game_active = FALSE
    /\ init_result = "none"
    /\ web_result = NoCall
    /\ session_result = NoCall
    /\ last_message = "none"

\* web_human_agent.py:140-143: the except clause of initialize_game logs,
\* sends an error message and returns False.
initialize_game_except == "false"

\* initialize_game counting the expansion of the start node as a turn.
initialize_game_counting_turn ==
    /\ \E mt \in 0 .. MaxTurnsBound : max_turns' = mt
    /\ current_turn' = 1
    /\ game_active' = TRUE
    /\ IF raises_paper(start_id) \/ raises_paper(end_id) \/ MissingStartOrEndPaper
       THEN \* the except clause, or "return False": nothing was added yet
            /\ visited_nodes' = {}
            /\ frontier' = {}
            /\ graph_nodes' = EmptyMap
            /\ graph_edges' = <<>>
            /\ agent_path' = <<>>
            /\ init_result' = IF raises_paper(start_id) \/ raises_paper(end_id)
                              THEN initialize_game_except ELSE "false"
            /\ last_message' = "error"
       ELSE LET nodes0 == add_node(add_node(EmptyMap, start_id, TRUE, "start"),
                                   end_id, TRUE, "end")
                initial_neighbors == get_neighbors(start_id)
                new_neighbor_ids ==
                    SelectSeq(initial_neighbors, LAMBDA n : n \notin {start_id})
                st0 == [edges |-> <<>>, visited |-> {start_id},
                        nodes |-> nodes0, frontier |-> {}]
                st == IF raises_neighbors(start_id) THEN st0
                      ELSE IF new_neighbor_ids # <<>>
                      THEN InitNeighbors(initial_neighbors, 1, st0)
                      ELSE st0
            IN /\ visited_nodes' = st.visited
               /\ frontier' = st.frontier
               /\ graph_nodes' = st.nodes
               /\ graph_edges' = st.edges
               /\ agent_path' = <<start_id>>
               /\ init_result' = IF raises_neighbors(start_id)
                                 THEN initialize_game_except ELSE "true"
               /\ last_message' = IF raises_neighbors(start_id)
                                  THEN "error" ELSE "game_initialized"
    /\ UNCHANGED <<web_result, session_result>>
    /\ UNCHANGED <<serverVars, providerVars, reqVars, bfsVars, llmVars>>

\* web_human_agent.py:69-143: initialize_game(start_id, end_id, max_turns).
\* A provider call that raises takes the body to the except clause with the
\* assignments made so far in place.
initialize_game ==
    /\ \E mt \in 0 .. MaxTurnsBound : max_turns' = mt
    /\ current_turn' = 0
    /\ game_active' = TRUE
    /\ IF raises_paper(start_id) \/ raises_paper(end_id) \/ MissingStartOrEndPaper
       THEN \* the except clause, or "return False": nothing was added yet
            /\ visited_nodes' = {}
            /\ frontier' = {}
            /\ graph_nodes' = EmptyMap
            /\ graph_edges' = <<>>
            /\ agent_path' = <<>>
            /\ init_result' = IF raises_paper(start_id) \/ raises_paper(end_id)
                              THEN initialize_game_except ELSE "false"
            /\ last_message' = "error"
       ELSE LET nodes0 == add_node(add_node(EmptyMap, start_id, TRUE, "start"),
                                   end_id, TRUE, "end")
                initial_neighbors == get_neighbors(start_id)
                new_neighbor_ids ==
                    SelectSeq(initial_neighbors, LAMBDA n : n \notin {start_id})
                st0 == [edges |-> <<>>, visited |-> {start_id},
                        nodes |-> nodes0, frontier |-> {}]
                st == IF raises_neighbors(start_id) THEN st0
                      ELSE IF new_neighbor_ids # <<>>
                      THEN InitNeighbors(initial_neighbors, 1, st0)
                      ELSE st0
            IN /\ visited_nodes' = st.visited
               /\ frontier' = st.frontier
               /\ graph_nodes' = st.nodes
               /\ graph_edges' = st.edges
               /\ agent_path' = <<start_id>>
               /\ init_result' = IF raises_neighbors(start_id)
                                 THEN initialize_game_except ELSE "true"
               /\ last_message' = IF raises_neighbors(start_id)
                                  THEN "error" ELSE "game_initialized"
    /\ UNCHANGED <<web_result, session_result>>
    /\ UNCHANGED <<serverVars, providerVars, reqVars, bfsVars, llmVars>>

\* The first initialize_game on the agent.
InitializeGame == init_result = "none" /\ initialize_game

\* initialize_game on an agent that has run before, for the same task.
InitializeGameAgain == init_result # "none" /\ initialize_game

\* Rejection that lets a choice through after the game has ended.
RejectionIgnoringActive(paper_id) ==
    IF paper_id \notin frontier THEN "Invalid paper choice"
    ELSE ""

\* Rejection that accepts any node while the game is active.
RejectionIgnoringFrontier(paper_id) ==
    IF ~game_active THEN "Game not active"
    ELSE ""

\* web_human_agent.py:147-151: the error make_choice returns at once, "" when
\* the choice is accepted.
Rejection(paper_id) ==
    IF ~game_active THEN "Game not active"
    ELSE IF paper_id \notin frontier THEN "Invalid paper choice"
    ELSE ""

\* The except clause of make_choice letting the exception through.
make_choice_reraise ==
    make_result(FALSE, "raised", FALSE, FALSE, "", 0, <<>>)

\* web_human_agent.py:268-270: the except clause of make_choice logs and
\* returns an error result.
make_choice_except ==
    make_result(FALSE, "Failed to process choice", FALSE, FALSE, "", 0, <<>>)

\* web_human_agent.py:145-270: what make_choice(paper_id) leaves in the agent
\* and returns.  When get_neighbors raises, the except clause returns with
\* the assignments of lines 154-161 in place.
Choice(paper_id) ==
    IF Rejection(paper_id) # ""
    THEN [turn |-> current_turn, path |-> agent_path, nodes |-> graph_nodes,
          edges |-> graph_edges, visited |-> visited_nodes,
          frontier |-> frontier, active |-> game_active,
          result |-> make_result(FALSE, Rejection(paper_id), FALSE, FALSE, "",
                                 0, <<>>)]
    ELSE
    LET turn == current_turn + 1
        path1 == Append(agent_path, paper_id)
        nodes1 == IF paper_id \in DOMAIN graph_nodes
                  THEN [graph_nodes EXCEPT ![paper_id] = "agent_path"]
                  ELSE graph_nodes
        frontier1 == frontier \ {paper_id}
        neighbors == get_neighbors(paper_id)
    IN
    IF raises_neighbors(paper_id)
    THEN [turn |-> turn, path |-> path1, nodes |-> nodes1,
          edges |-> graph_edges, visited |-> visited_nodes,
          frontier |-> frontier1, active |-> game_active,
          result |-> make_choice_except]
    ELSE
    IF end_id \in Range(neighbors)
    THEN LET path2 == Append(path1, end_id)
             nodes2 == IF end_id \in DOMAIN nodes1
                       THEN [nodes1 EXCEPT ![end_id] = "agent_path"]
                       ELSE nodes1
         IN [turn |-> turn, path |-> path2, nodes |-> nodes2,
             edges |-> graph_edges, visited |-> visited_nodes,
             frontier |-> frontier1, active |-> FALSE,
             result |-> make_result(TRUE, "", TRUE, TRUE, "", turn,
                                    DisplayPath(path2, nodes2))]
    ELSE
    LET st == ChoiceNeighbors(neighbors, 1, paper_id,
                  [edges |-> graph_edges, visited |-> visited_nodes,
                   nodes |-> nodes1, frontier |-> frontier1])
        after(active, res) ==
            [turn |-> turn, path |-> path1, nodes |-> st.nodes,
             edges |-> st.edges, visited |-> st.visited,
             frontier |-> st.frontier, active |-> active, result |-> res]
    IN
    IF turn >= max_turns
    THEN after(FALSE, make_result(TRUE, "", TRUE, FALSE, "Turn limit reached",
                                  turn, <<>>))
    ELSE IF st.frontier = {}
    THEN after(FALSE, make_result(TRUE, "", TRUE, FALSE, "No more papers to explore",
                                  turn, <<>>))
    ELSE after(TRUE, make_result(TRUE, "", FALSE, FALSE, "", turn,
                                 DisplayPath(path1, st.nodes)))

\* web_server.py:177-252: handle_interactive_choice: the choice goes through
\* make_choice, and a game-complete result is kept as the session's result.
MakeChoice(paper_id) ==
    LET c == Choice(paper_id) IN
    /\ current_turn' = c.turn
    /\ agent_path' = c.path
    /\ graph_nodes' = c.nodes
    /\ graph_edges' = c.edges
    /\ visited_nodes' = c.visited
    /\ frontier' = c.frontier
    /\ game_active' = c.active
    /\ web_result' = c.result
    /\ session_result' = IF c.result.success /\ c.result.game_complete
                         THEN c.result ELSE session_result
    /\ last_message' = IF ~c.result.success THEN "error"
                       ELSE IF c.result.game_complete THEN "game_complete"
                       ELSE "turn_complete"
    /\ UNCHANGED <<max_turns, init_result>>
    /\ UNCHANGED <<serverVars, providerVars, reqVars, bfsVars, llmVars>>

\* The provider a session runs against: metadata may be missing for one node,
\* which is the start, the end, or node 2 (a node that, over all the graphs,
\* is a neighbour of start_id, a deeper node or out of reach).
\* A session only follows the lists forward from start_id; its graphs are
\* listed in the modes "both" and "up" ("down" leaves start_id without
\* neighbours, "mixed" is not used for sessions).
SessionProviderInit ==
    /\ \E E \in SUBSET Pairs, mode \in {"both", "up"} : nbrs = NeighborLists(E, mode)
    /\ start_id = 1
    /\ \E k \in Nodes : end_id = NumNodes + 1 - k
    /\ \E x \in {0, start_id, end_id, 2} : meta = Nodes \ {x}
    /\ failing = {}
    /\ raising = {}

\* The solver's variables while no solver runs.
BfsIdle ==
    /\ max_depth = 1
    /\ bfs_pc = "idle"
    /\ round = 0
    /\ level_left = 0
    /\ q_fwd = <<>>
    /\ visited_fwd = <<>>
    /\ q_bwd = <<>>
    /\ visited_bwd = <<>>
    /\ bfs_result = Running
    /\ fetches = 0


(***************************************************************************)
(* LLMAgent.find_path (src/llm_agent.py).  The decision of the language    *)
(* model is an input of each iteration: a node id, or 0 for no usable      *)
(* decision.  The returned pair (agent_path, full_path) is a record; a     *)
(* None component is the empty sequence with its flag unset.               *)
(***************************************************************************)
llm_return(has_agent_path, path, has_full_path, full_path) ==
    [has_agent_path |-> has_agent_path, agent_path |-> path,
     has_full_path |-> has_full_path, full_path |-> full_path]

LlmNotReturned == llm_return(FALSE, <<>>, FALSE, <<>>)

\* llm_agent.py:92-99: the loop over the start node's neighbours.
RECURSIVE LlmInitNeighbors(_, _, _)
LlmInitNeighbors(initial_neighbors, k, st) ==
    IF k > Len(initial_neighbors) THEN st
    ELSE LET neighbor_id == initial_neighbors[k]
             edges == add_edge(st.edges, start_id, neighbor_id)
         IN IF neighbor_id \notin st.visited
            THEN LlmInitNeighbors(initial_neighbors, k + 1,
                    [edges |-> edges,
                     visited |-> st.visited \cup {neighbor_id},
                     nodes |-> add_node(st.nodes, neighbor_id,
                                        get_paper_by_id(neighbor_id), "referenced"),
                     frontier |-> IF get_paper_by_id(neighbor_id)
                                  THEN st.frontier \cup {neighbor_id}
                                  ELSE st.frontier])
            ELSE LlmInitNeighbors(initial_neighbors, k + 1,
                                  [st EXCEPT !.edges = edges])

\* llm_agent.py:136-155: the loop over the expanded node's neighbours; it
\* stops at the end node (found), after adding the edge to it.
RECURSIVE LlmTurnNeighbors(_, _, _, _)
LlmTurnNeighbors(neighbors, k, paper_id, st) ==
    IF k > Len(neighbors) THEN st
    ELSE LET neighbor_id == neighbors[k]
             edges == add_edge(st.edges, paper_id, neighbor_id)
         IN IF neighbor_id = end_id
            THEN [st EXCEPT !.edges = edges, !.found = TRUE]
            ELSE IF neighbor_id \notin st.visited
            THEN LlmTurnNeighbors(neighbors, k + 1, paper_id,
                    [edges |-> edges,
                     visited |-> st.visited \cup {neighbor_id},
                     nodes |-> add_node(st.nodes, neighbor_id,
                                        get_paper_by_id(neighbor_id), "referenced"),
                     frontier |-> IF get_paper_by_id(neighbor_id)
                                  THEN st.frontier \cup {neighbor_id}
                                  ELSE st.frontier,
                     found |-> FALSE])
            ELSE LlmTurnNeighbors(neighbors, k + 1, paper_id,
                                  [st EXCEPT !.edges = edges])

\* llm_agent.py:62-67: the agent as constructed.
LlmInit ==
    /\ llm_pc = "new"
    /\ llm_max_turns = 0
    /\ llm_turn = 0
    /\ llm_nodes = EmptyMap
    /\ llm_edges = <<>>
    /\ llm_path = <<>>
    /\ llm_visited = {}
    /\ llm_frontier = {}
    /\ llm_last = "none"
    /\ llm_runs = 0
    /\ llm_result = LlmNotReturned

\* llm_agent.py:69-99: find_path up to the search loop.  The agent's graph,
\* visited set and frontier are the ones made by __init__: find_path adds to
\* them.
find_path_start ==
    /\ llm_runs' = llm_runs + 1
    /\ \E mt \in 0 .. MaxTurnsBound : llm_max_turns' = mt
    /\ llm_turn' = 0
    /\ llm_last' = "none"
    /\ IF MissingStartOrEndPaper
       THEN /\ llm_pc' = "done"
            /\ llm_result' = llm_return(FALSE, <<>>, FALSE, <<>>)
            /\ UNCHANGED <<llm_nodes, llm_edges, llm_path, llm_visited, llm_frontier>>
       ELSE LET nodes0 == add_node(add_node(llm_nodes, start_id, TRUE, "start"),
                                   end_id, TRUE, "end")
                st == LlmInitNeighbors(get_neighbors(start_id), 1,
                         [edges |-> llm_edges,
                          visited |-> llm_visited \cup {start_id},
                          nodes |-> nodes0, frontier |-> llm_frontier])
            IN /\ llm_pc' = "loop"
               /\ llm_result' = llm_result
               /\ llm_path' = Append(llm_path, start_id)
               /\ llm_nodes' = st.nodes
               /\ llm_edges' = st.edges
               /\ llm_visited' = st.visited
               /\ llm_frontier' = st.frontier
    /\ UNCHANGED <<serverVars, providerVars, reqVars, bfsVars, webVars>>

\* The first find_path on the agent.
LlmFindPathStart == llm_pc = "new" /\ find_path_start

\* find_path on an agent whose earlier find_path has returned, for the same
\* task.
LlmFindPathAgain == llm_pc = "done" /\ llm_runs < MaxRuns /\ find_path_start

\* llm_agent.py:102-155: one iteration of the search loop with the decision
\* the model gave (0: none, or no "paper_id" in it).
LlmTurn(decision) ==
    /\ llm_pc = "loop"
    /\ llm_turn < llm_max_turns
    /\ llm_turn' = llm_turn + 1
    /\ IF llm_frontier = {}
       THEN \* break: the frontier is empty
            /\ llm_pc' = "done"
            /\ llm_last' = "frontier empty"
            /\ llm_result' = llm_return(FALSE, <<>>, TRUE, llm_path)
            /\ UNCHANGED <<llm_nodes, llm_edges, llm_path, llm_visited, llm_frontier>>
       ELSE IF decision = 0
       THEN \* break: no valid decision
            /\ llm_pc' = "done"
            /\ llm_last' = "no decision"
            /\ llm_result' = llm_return(FALSE, <<>>, TRUE, llm_path)
            /\ UNCHANGED <<llm_nodes, llm_edges, llm_path, llm_visited, llm_frontier>>
       ELSE IF decision \notin llm_frontier
       THEN \* continue: the next iteration asks again
            /\ llm_pc' = "loop"
            /\ llm_last' = "not in frontier"
            /\ UNCHANGED <<llm_nodes, llm_edges, llm_path, llm_visited,
                           llm_frontier, llm_result>>
       ELSE LET path1 == Append(llm_path, decision)
                nodes1 == [llm_nodes EXCEPT ![decision] = "agent_path"]
                st == LlmTurnNeighbors(get_neighbors(decision), 1, decision,
                         [edges |-> llm_edges, visited |-> llm_visited,
                          nodes |-> nodes1,
                          frontier |-> llm_frontier \ {decision},
                          found |-> FALSE])
            IN /\ llm_last' = "expanded"
               /\ llm_edges' = st.edges
               /\ llm_visited' = st.visited
               /\ llm_frontier' = st.frontier
               /\ IF st.found
                  THEN /\ llm_path' = Append(path1, end_id)
                       /\ llm_nodes' = [st.nodes EXCEPT ![end_id] = "agent_path"]
                       /\ llm_pc' = "done"
                       /\ llm_result' = llm_return(TRUE, llm_path', FALSE, <<>>)
                  ELSE /\ llm_path' = path1
                       /\ llm_nodes' = st.nodes
                       /\ llm_pc' = "loop"
                       /\ llm_result' = llm_result
    /\ UNCHANGED <<llm_max_turns, llm_runs>>
    /\ UNCHANGED <<serverVars, providerVars, reqVars, bfsVars, webVars>>

\* llm_agent.py:102, 157-160: the loop has used its max_turns iterations.
LlmLoopEnds ==
    /\ llm_pc = "loop"
    /\ llm_turn >= llm_max_turns
    /\ llm_pc' = "done"
    /\ llm_result' = llm_return(FALSE, <<>>, TRUE, llm_path)
    /\ UNCHANGED <<llm_max_turns, llm_turn, llm_nodes, llm_edges, llm_path,
                   llm_visited, llm_frontier, llm_last, llm_runs>>
    /\ UNCHANGED <<serverVars, providerVars, reqVars, bfsVars, webVars>>

(***************************************************************************)
(* OpenAlexClient._make_request: one call is a loop of session.get         *)
(* attempts.  What the server (or the network) answers to each attempt is  *)
(* an input: a status class, or a RequestException raised by the get.      *)
(***************************************************************************)
OPENALEX_MAX_RETRIES == 5

Responses == {"200", "404", "429", "5xx", "4xx", "RequestException"}

\* The outcomes the loop counts as failed attempts and may retry.
Transient == {"429", "5xx", "RequestException"}

\* "return None" after a 404.
not_found_value == "None"

\* "return None" once attempts > OPENALEX_MAX_RETRIES.
retries_exhausted_value == "None"

on_response_retrying_404(r, a) ==
    IF r = "200" THEN [returns |-> TRUE, attempts |-> a, value |-> "json"]
    ELSE IF r \in Transient \cup {"404"}
         THEN IF a + 1 > OPENALEX_MAX_RETRIES
              THEN [returns |-> TRUE, attempts |-> a + 1,
                    value |-> retries_exhausted_value]
              ELSE [returns |-> FALSE, attempts |-> a + 1, value |-> "pending"]
    ELSE [returns |-> TRUE, attempts |-> a, value |-> "None"]

\* on_response with a retry budget for the HTTP statuses only: a connection
\* error is retried without being counted.
on_response_not_counting_exceptions(r, a) ==
    IF r = "200" THEN [returns |-> TRUE, attempts |-> a, value |-> "json"]
    ELSE IF r = "404"
         THEN [returns |-> TRUE, attempts |-> a, value |-> not_found_value]
    ELSE IF r = "RequestException"
         THEN [returns |-> FALSE, attempts |-> a, value |-> "pending"]
    ELSE IF r \in Transient
         THEN IF a + 1 > OPENALEX_MAX_RETRIES
              THEN [returns |-> TRUE, attempts |-> a + 1,
                    value |-> retries_exhausted_value]
              ELSE [returns |-> FALSE, attempts |-> a + 1, value |-> "pending"]
    ELSE [returns |-> TRUE, attempts |-> a, value |-> "None"]

\* One iteration of the while loop, given the outcome r of its session.get
\* and the attempts counted so far.
on_response(r, a) ==
    IF r = "200" THEN [returns |-> TRUE, attempts |-> a, value |-> "json"]
    ELSE IF r = "404"
         THEN [returns |-> TRUE, attempts |-> a, value |-> not_found_value]
    ELSE IF r \in Transient
         THEN IF a + 1 > OPENALEX_MAX_RETRIES
              THEN [returns |-> TRUE, attempts |-> a + 1,
                    value |-> retries_exhausted_value]
              ELSE [returns |-> FALSE, attempts |-> a + 1, value |-> "pending"]
    \* any other status: raise_for_status raises HTTPError, caught: None
    ELSE [returns |-> TRUE, attempts |-> a, value |-> "None"]

ReqIdle ==
    /\ req_pc = "idle"
    /\ attempts = 0
    /\ responses = <<>>
    /\ req_result = "pending"

\* get_paper_by_id calls _make_request and returns its value unchanged.
MakeRequestCall ==
    /\ req_pc = "idle"
    /\ req_pc' = "loop"
    /\ attempts' = 0
    /\ UNCHANGED <<responses, req_result>>
    /\ UNCHANGED <<serverVars, providerVars, bfsVars, webVars, llmVars>>

MakeRequestAttempt(r) ==
    /\ req_pc = "loop"
    /\ LET o == on_response(r, attempts) IN
         /\ responses' = Append(responses, r)
         /\ attempts' = o.attempts
         /\ req_pc' = IF o.returns THEN "returned" ELSE "loop"
         /\ req_result' = o.value
    /\ UNCHANGED <<serverVars, providerVars, bfsVars, webVars, llmVars>>

(***************************************************************************)
(* make_choice as a coroutine.  Two websocket connections that use the     *)
(* same client id reach the same session (web_server.py:90-106, 177-187),  *)
(* each awaiting its own handle_interactive_choice: their make_choice      *)
(* calls run on one event loop and are interleaved at the awaits of        *)
(* make_choice (get_neighbors at line 164, get_many_papers at 203); the    *)
(* code between two awaits runs without interruption.  initialize_game     *)
(* empties the frontier before its first await and fills it after its      *)
(* last, so a choice made while it runs is rejected and changes nothing:   *)
(* it is kept as one step.                                                 *)
(***************************************************************************)
Calls == {1, 2}

CallsIdle ==
    /\ call_pc = [c \in Calls |-> "idle"]
    /\ call_paper = [c \in Calls |-> 0]
    /\ accepted = <<>>
    /\ terminal_results = 0


\* remove_from_frontier leaving the removal for later.
remove_from_frontier_deferred(fr, paper_id) == fr

\* web_human_agent.py:160-161: del self.frontier[paper_id].
remove_from_frontier(fr, paper_id) == fr \ {paper_id}

\* web_server.py:204-252: handle_interactive_choice with the result of its
\* make_choice: an error message, or the game-complete result kept as the
\* session's result and stored as a run, or a turn-complete message.
Report(c, result) ==
    /\ call_pc' = [call_pc EXCEPT ![c] = "returned"]
    /\ web_result' = result
    /\ session_result' = IF result.success /\ result.game_complete
                         THEN result ELSE session_result
    /\ last_message' = IF ~result.success THEN "error"
                       ELSE IF result.game_complete THEN "game_complete"
                       ELSE "turn_complete"
    /\ terminal_results' = IF result.success /\ result.game_complete
                           THEN terminal_results + 1 ELSE terminal_results

\* web_human_agent.py:147-166: make_choice up to its first await.
CallBegins(c, paper_id) ==
    /\ init_result # "none"
    /\ call_pc[c] \in {"idle", "returned"}
    /\ call_paper' = [call_paper EXCEPT ![c] = paper_id]
    /\ IF Rejection(paper_id) # ""
       THEN /\ Report(c, make_result(FALSE, Rejection(paper_id), FALSE, FALSE,
                                     "", 0, <<>>))
            /\ UNCHANGED <<current_turn, agent_path, graph_nodes, frontier,
                           accepted>>
       ELSE /\ current_turn' = current_turn + 1
            /\ agent_path' = Append(agent_path, paper_id)
            /\ graph_nodes' = IF paper_id \in DOMAIN graph_nodes
                              THEN [graph_nodes EXCEPT ![paper_id] = "agent_path"]
                              ELSE graph_nodes
            /\ frontier' = remove_from_frontier(frontier, paper_id)
            /\ accepted' = Append(accepted, paper_id)
            /\ call_pc' = [call_pc EXCEPT ![c] = "neighbors"]
            /\ UNCHANGED <<web_result, session_result, last_message,
                           terminal_results>>
    /\ UNCHANGED <<graph_edges, visited_nodes, game_active, max_turns,
                   init_result>>
    /\ UNCHANGED <<runVars, storeVars, providerVars, reqVars, bfsVars, llmVars>>

\* web_human_agent.py:209-266: the loop over the neighbours, the turn-limit
\* and empty-frontier tests and the return, on the session as it is now.
CallFinishes(c) ==
    LET paper_id == call_paper[c]
        st == ChoiceNeighbors(get_neighbors(paper_id), 1, paper_id,
                  [edges |-> graph_edges, visited |-> visited_nodes,
                   nodes |-> graph_nodes, frontier |-> frontier])
        over == current_turn >= max_turns \/ st.frontier = {}
    IN /\ graph_edges' = st.edges
       /\ visited_nodes' = st.visited
       /\ graph_nodes' = st.nodes
       /\ frontier' = st.frontier
       /\ game_active' = IF over THEN FALSE ELSE game_active
       /\ Report(c,
             IF current_turn >= max_turns
             THEN make_result(TRUE, "", TRUE, FALSE, "Turn limit reached",
                              current_turn, <<>>)
             ELSE IF st.frontier = {}
             THEN make_result(TRUE, "", TRUE, FALSE, "No more papers to explore",
                              current_turn, <<>>)
             ELSE make_result(TRUE, "", FALSE, FALSE, "", current_turn,
                              DisplayPath(agent_path, st.nodes)))
       /\ UNCHANGED <<agent_path, current_turn>>

\* web_human_agent.py:168-207: get_neighbors has come back: the end test,
\* then new_neighbor_ids; with none of them there is no further await.
CallGotNeighbors(c) ==
    /\ call_pc[c] = "neighbors"
    /\ LET paper_id == call_paper[c]
           neighbors == get_neighbors(paper_id)
           new_neighbor_ids ==
               SelectSeq(neighbors,
                         LAMBDA n : n \notin visited_nodes /\ n # end_id)
       IN IF end_id \in Range(neighbors)
          THEN LET path2 == Append(agent_path, end_id)
                   nodes2 == IF end_id \in DOMAIN graph_nodes
                             THEN [graph_nodes EXCEPT ![end_id] = "agent_path"]
                             ELSE graph_nodes
               IN /\ agent_path' = path2
                  /\ graph_nodes' = nodes2
                  /\ game_active' = FALSE
                  /\ Report(c, make_result(TRUE, "", TRUE, TRUE, "", current_turn,
                                           DisplayPath(path2, nodes2)))
                  /\ UNCHANGED <<graph_edges, visited_nodes, frontier,
                                 current_turn>>
          ELSE IF new_neighbor_ids = <<>>
          THEN CallFinishes(c)
          ELSE /\ call_pc' = [call_pc EXCEPT ![c] = "papers"]
               /\ UNCHANGED <<webVars, terminal_results>>
    /\ UNCHANGED <<max_turns, init_result, call_paper, accepted>>
    /\ UNCHANGED <<runVars, storeVars, providerVars, reqVars, bfsVars, llmVars>>

\* web_human_agent.py:203-205: get_many_papers has come back.
CallGotPapers(c) ==
    /\ call_pc[c] = "papers"
    /\ CallFinishes(c)
    /\ UNCHANGED <<max_turns, init_result, call_paper, accepted>>
    /\ UNCHANGED <<runVars, storeVars, providerVars, reqVars, bfsVars, llmVars>>

(***************************************************************************)
(* LLM runs of the web server.  start_llm_run builds a task, an            *)
(* OpenAlexClient and an LLMAgent, stores the run's record in current_runs *)
(* under run_id = "llm_<int(time.time())>", awaits the broadcast and then  *)
(* creates the background task with that run_id; the task looks its        *)
(* session up by run_id.  The clock counts half seconds, so that two       *)
(* instants of one second are told apart while int() gives them the same   *)
(* run_id.  The agent created by start request r is agent instance r; what *)
(* find_path does with an agent is modelled by LlmFindPathStart and        *)
(* LlmTurn, and only the number of find_path calls per instance is kept    *)
(* here.                                                                   *)
(***************************************************************************)
Starts == 1 .. NumStarts

NoRecord == [owner |-> 0, agent |-> 0, status |-> "none"]

\* web_server.py:275: f"llm_{int(time.time())}", the clock in half seconds.
run_id_at(t) == t \div 2

RunIds == {run_id_at(t) : t \in 0 .. MaxClock}

RunsIdle ==
    /\ now = 0
    /\ run_pc = [r \in Starts |-> "idle"]
    /\ run_key = [r \in Starts |-> 0]
    /\ current_runs = [k \in RunIds |-> NoRecord]
    /\ served = [r \in Starts |-> 0]
    /\ agent_calls = [r \in Starts |-> 0]

\* Time passes between any two steps of the event loop.
ClockTick ==
    /\ now < MaxClock
    /\ now' = now + 1
    /\ UNCHANGED <<run_pc, run_key, current_runs, served, agent_calls>>
    /\ UNCHANGED <<callVars, storeVars, providerVars, reqVars, bfsVars, webVars,
                   llmVars>>

\* web_server.py:261-294: start_llm_run up to its await of the broadcast;
\* a benchmark file that cannot be read ends it in the except clause.
StartLlmRun(r) ==
    /\ run_pc[r] = "idle"
    /\ \/ /\ run_pc' = [run_pc EXCEPT ![r] = "broadcast"]
          /\ run_key' = [run_key EXCEPT ![r] = run_id_at(now)]
          /\ current_runs' = [current_runs EXCEPT ![run_id_at(now)] =
                                 [owner |-> r, agent |-> r, status |-> "running"]]
       \/ /\ run_pc' = [run_pc EXCEPT ![r] = "failed"]
          /\ UNCHANGED <<run_key, current_runs>>
    /\ UNCHANGED <<now, served, agent_calls>>
    /\ UNCHANGED <<callVars, storeVars, providerVars, reqVars, bfsVars, webVars,
                   llmVars>>

\* web_server.py:296-297: asyncio.create_task(run_llm_agent_background(run_id)).
StartCreatesTask(r) ==
    /\ run_pc[r] = "broadcast"
    /\ run_pc' = [run_pc EXCEPT ![r] = "scheduled"]
    /\ UNCHANGED <<now, run_key, current_runs, served, agent_calls>>
    /\ UNCHANGED <<callVars, storeVars, providerVars, reqVars, bfsVars, webVars,
                   llmVars>>

\* web_server.py:306-349: run_llm_agent_background up to its broadcast: the
\* session found under run_id, find_path on its agent, the session completed.
RunLlmAgentBackground(r) ==
    /\ run_pc[r] = "scheduled"
    /\ LET session == current_runs[run_key[r]]
       IN /\ agent_calls' = [agent_calls EXCEPT ![session.agent] = @ + 1]
          /\ current_runs' = [current_runs EXCEPT ![run_key[r]].status = "completed"]
          /\ served' = [served EXCEPT ![r] = session.owner]
    /\ run_pc' = [run_pc EXCEPT ![r] = "done"]
    /\ UNCHANGED <<now, run_key>>
    /\ UNCHANGED <<callVars, storeVars, providerVars, reqVars, bfsVars, webVars,
                   llmVars>>

(***************************************************************************)
(* RunStorage.add_run called from several threads.  A stored run is        *)
(* written as the number of the thread that added it, a run stored before  *)
(* the first call as 0.  The steps of one call are taken one at a time, so *)
(* that it is the lock that keeps the calls apart.  Whether the file can   *)
(* be read and written is an input: _read_data answers a missing or        *)
(* undecodable file with an empty list and lets any other error reach      *)
(* add_run's except clause; _write_data logs every exception and returns.  *)
(***************************************************************************)
KEEP_LAST_RUNS == 1000

Threads == 1 .. NumThreads

\* persistence.py:65-66: data["runs"][-1000:] when there are more than 1000.
keep_last(runs) ==
    IF Len(runs) > KEEP_LAST_RUNS
    THEN SubSeq(runs, Len(runs) - KEEP_LAST_RUNS + 1, Len(runs))
    ELSE runs

StoreIdle ==
    /\ file_runs = <<>>
    /\ file_ok = TRUE
    /\ initial_runs = <<>>
    /\ lock = 0
    /\ lock_order = <<>>
    /\ add_pc = [t \in Threads |-> "idle"]
    /\ add_data = [t \in Threads |-> <<>>]
    /\ add_result = [t \in Threads |-> "none"]

\* The storage file when the calls begin: new, or one or two runs short of
\* the limit, or at the limit.
StoreInit ==
    /\ \E k \in {0, KEEP_LAST_RUNS - 2, KEEP_LAST_RUNS - 1, KEEP_LAST_RUNS} :
           initial_runs = [i \in 1 .. k |-> 0]
    /\ file_runs = initial_runs
    /\ file_ok = TRUE
    /\ lock = 0
    /\ lock_order = <<>>
    /\ add_pc = [t \in Threads |-> "idle"]
    /\ add_data = [t \in Threads |-> <<>>]
    /\ add_result = [t \in Threads |-> "none"]

\* persistence.py:51: with self.lock.
AddRunAcquires(t) ==
    /\ add_pc[t] = "idle"
    /\ lock = 0
    /\ lock' = t
    /\ lock_order' = Append(lock_order, t)
    /\ add_pc' = [add_pc EXCEPT ![t] = "read"]
    /\ UNCHANGED <<file_runs, file_ok, initial_runs, add_data, add_result>>
    /\ UNCHANGED <<callVars, runVars, providerVars, reqVars, bfsVars, webVars,
                   llmVars>>

\* persistence.py:53 and 32-39: data = self._read_data(); an error other
\* than FileNotFoundError and JSONDecodeError ends add_run with False
\* (72-74) and leaves the with block.
AddRunReads(t) ==
    /\ add_pc[t] = "read"
    /\ \/ /\ add_data' = [add_data EXCEPT ![t] =
                             IF file_ok THEN file_runs ELSE <<>>]
          /\ add_pc' = [add_pc EXCEPT ![t] = "write"]
          /\ UNCHANGED <<lock, add_result>>
       \/ /\ add_pc' = [add_pc EXCEPT ![t] = "returned"]
          /\ add_result' = [add_result EXCEPT ![t] = "false"]
          /\ lock' = 0
          /\ UNCHANGED add_data
    /\ UNCHANGED <<file_runs, file_ok, initial_runs, lock_order>>
    /\ UNCHANGED <<callVars, runVars, providerVars, reqVars, bfsVars, webVars,
                   llmVars>>

WriteOutcomes == {"written", "open failed", "dump failed"}

\* persistence.py:56-70 and 41-47: the run appended, the list cut to its
\* last 1000, _write_data, return True.  open(.., 'w') that fails leaves the
\* file as it was; a dump that fails leaves a truncated file.
AddRunWrites(t, outcome) ==
    /\ add_pc[t] = "write"
    /\ LET runs == keep_last(Append(add_data[t], t))
       IN /\ file_runs' = CASE outcome = "written" -> runs
                            [] outcome = "open failed" -> file_runs
                            [] outcome = "dump failed" -> <<>>
          /\ file_ok' = CASE outcome = "written" -> TRUE
                          [] outcome = "open failed" -> file_ok
                          [] outcome = "dump failed" -> FALSE
    /\ add_pc' = [add_pc EXCEPT ![t] = "returned"]
    /\ add_result' = [add_result EXCEPT ![t] = "true"]
    /\ lock' = 0
    /\ UNCHANGED <<initial_runs, lock_order, add_data>>
    /\ UNCHANGED <<callVars, runVars, providerVars, reqVars, bfsVars, webVars,
                   llmVars>>

ServerIdle == CallsIdle /\ RunsIdle /\ StoreIdle

LlmAgentInit == SessionProviderInit /\ BfsIdle /\ WebInit /\ LlmInit /\ ReqIdle
        /\ ServerIdle

LlmAgentNext ==
    \/ LlmFindPathStart
    \/ \E decision \in Nodes \cup {0} : LlmTurn(decision)
    \/ LlmLoopEnds

SpecLLM == LlmAgentInit /\ [][LlmAgentNext]_vars

SessionInit == SessionProviderInit /\ BfsIdle /\ WebInit /\ LlmInit /\ ReqIdle
        /\ ServerIdle

SessionNext ==
    \/ InitializeGame
    \/ \E paper_id \in Nodes : MakeChoice(paper_id)

SpecSession == SessionInit /\ [][SessionNext]_vars

\* The provider of a session in which one provider call raises: the
\* metadata call of the start or the end, or the neighbours call of the
\* start, the end or node 2.
RaisingProviderInit ==
    /\ \E E \in SUBSET Pairs, mode \in {"both", "up"} : nbrs = NeighborLists(E, mode)
    /\ start_id = 1
    /\ \E k \in Nodes : end_id = NumNodes + 1 - k
    /\ meta = Nodes
    /\ failing = {}
    /\ \/ \E x \in {start_id, end_id} : raising = {<<"paper", x>>}
       \/ \E x \in {start_id, end_id, 2} : raising = {<<"neighbors", x>>}

SessionRaisingInit == RaisingProviderInit /\ BfsIdle /\ WebInit /\ LlmInit /\ ReqIdle
        /\ ServerIdle

SpecSessionRaising == SessionRaisingInit /\ [][SessionNext]_vars

\* web_server.py:142-175, 261-304: a run drives one agent, the web session's
\* or the LLM agent, each created for the run with a provider of its own.
AgentsNext ==
    \/ llm_pc = "new" /\ SessionNext
    \/ init_result = "none" /\ web_result = NoCall /\ LlmAgentNext

SpecAgents == SessionInit /\ [][AgentsNext]_vars

SolverInit == ProviderInit /\ BfsInit /\ WebInit /\ LlmInit /\ ReqIdle
        /\ ServerIdle

SolverNext ==
    \/ BfsTrivial
    \/ BfsBegin
    \/ BfsExpandFwd
    \/ BfsExpandBwd
    \/ BfsFwdStepReturns
    \/ BfsBwdStepReturns

SpecSolver == SolverInit /\ [][SolverNext]_vars

\* The provider of a solver run in which the work request of one node fails.
FailingProviderInit ==
    /\ \E E \in SUBSET Pairs, mode \in Modes : nbrs = NeighborLists(E, mode)
    /\ meta = Nodes
    /\ \E x \in Nodes : failing = {x}
    /\ raising = {}
    /\ start_id = 1
    /\ end_id \in Nodes

SolverFailingInit == FailingProviderInit /\ BfsInit /\ WebInit /\ LlmInit /\ ReqIdle
        /\ ServerIdle

SpecSolverFailing == SolverFailingInit /\ [][SolverNext]_vars

\* The request loop does not read the graph: one provider state is enough.
RequestProviderInit ==
    /\ nbrs = [n \in Nodes |-> <<>>]
    /\ meta = Nodes
    /\ failing = {}
    /\ raising = {}
    /\ start_id = 1
    /\ end_id = 1

RequestInit == RequestProviderInit /\ BfsIdle /\ WebInit /\ LlmInit /\ ReqIdle
        /\ ServerIdle

RequestNext ==
    \/ MakeRequestCall
    \/ \E r \in Responses : MakeRequestAttempt(r)

SpecRequest == RequestInit /\ [][RequestNext]_vars

(***************************************************************************)
(* The web session and LLMAgent.find_path run side by side on the same     *)
(* task with the same max_turns: the web session takes each choice first,  *)
(* find_path's loop is then given the same node as its decision.           *)
(***************************************************************************)
\* find_path has processed as many choices as the web session.
InStep == llm_pc = "loop" /\ llm_turn = current_turn

PairedInitializeGame == llm_pc = "new" /\ InitializeGame

PairedFindPathStart ==
    /\ init_result # "none"
    /\ LlmFindPathStart
    /\ llm_max_turns' = max_turns

\* A choice that is in the web session's frontier when made.
PairedMakeChoice(paper_id) ==
    /\ init_result = "true" /\ game_active
    /\ InStep
    /\ paper_id \in frontier
    /\ MakeChoice(paper_id)

\* find_path's loop is given the node the web session has just taken:
\* agent_path is the start followed by the choices (and the end on a win).
PairedLlmTurn ==
    /\ llm_pc = "loop"
    /\ llm_turn < current_turn
    /\ LlmTurn(agent_path[llm_turn + 2])

\* No choice is left to give: find_path goes on only where it needs none
\* (the frontier test at the top of an iteration, or the end of the loop).
PairedLlmEnds ==
    /\ InStep
    /\ init_result # "true" \/ ~game_active \/ frontier = {}
    /\ \/ LlmLoopEnds
       \/ llm_frontier = {} /\ LlmTurn(0)

PairedNext ==
    \/ PairedInitializeGame
    \/ PairedFindPathStart
    \/ \E paper_id \in Nodes : PairedMakeChoice(paper_id)
    \/ PairedLlmTurn
    \/ PairedLlmEnds

SpecPaired == SessionInit /\ [][PairedNext]_vars

(***************************************************************************)
(* One agent object used for more than one run of the same task: the web   *)
(* agent through a further initialize_game, the LLM agent through a        *)
(* further find_path.                                                      *)
(***************************************************************************)
RerunNext ==
    \/ llm_pc = "new" /\ (SessionNext \/ InitializeGameAgain)
    \/ init_result = "none" /\ web_result = NoCall
          /\ (LlmAgentNext \/ LlmFindPathAgain)

SpecRerun == SessionInit /\ [][RerunNext]_vars

\* The request loop when every session.get it issues comes back, with a
\* response or with an exception: the loop is straight-line code in one
\* thread, so its next iteration is always taken.
SpecRequestLive == SpecRequest /\ WF_vars(RequestNext)

OverlapNext ==
    \/ InitializeGame
    \/ \E c \in Calls, paper_id \in Nodes : CallBegins(c, paper_id)
    \/ \E c \in Calls : CallGotNeighbors(c)
    \/ \E c \in Calls : CallGotPapers(c)

\* The provider of the overlapping calls: an undirected citation graph, all
\* metadata present, the end paper the last node.
OverlapProviderInit ==
    /\ \E E \in SUBSET Pairs : nbrs = NeighborLists(E, "both")
    /\ start_id = 1
    /\ end_id = NumNodes
    /\ meta = Nodes
    /\ failing = {}
    /\ raising = {}

OverlapInit == OverlapProviderInit /\ BfsIdle /\ WebInit /\ LlmInit /\ ReqIdle
        /\ ServerIdle

RunsNext ==
    \/ ClockTick
    \/ \E r \in Starts : StartLlmRun(r)
    \/ \E r \in Starts : StartCreatesTask(r)
    \/ \E r \in Starts : RunLlmAgentBackground(r)

SpecRuns == RequestInit /\ [][RunsNext]_vars

StorageInit == RequestProviderInit /\ BfsIdle /\ WebInit /\ LlmInit /\ ReqIdle
        /\ CallsIdle /\ RunsIdle /\ StoreInit

StorageNext ==
    \/ \E t \in Threads : AddRunAcquires(t)
    \/ \E t \in Threads : AddRunReads(t)
    \/ \E t \in Threads, outcome \in WriteOutcomes : AddRunWrites(t, outcome)

SpecStorage == StorageInit /\ [][StorageNext]_vars

SpecOverlap == OverlapInit /\ [][OverlapNext]_vars

(***************************************************************************)
(* Graph facts the solver's claims are stated against.                     *)
(***************************************************************************)
\* Every listed edge is listed at both of its ends.
Symmetric == \A u \in Nodes : \A v \in Range(nbrs[u]) : u \in Range(nbrs[v])

\* u and v are joined by an edge the provider reports at either end.
Reported(u, v) == v \in Range(nbrs[u]) \/ u \in Range(nbrs[v])

RECURSIVE Within(_, _)
Within(S, k) ==
    IF k = 0 THEN S
    ELSE Within(S \cup {v \in Nodes : \E u \in S : Reported(u, v)}, k - 1)

\* Edges on a shortest start-end route over the reported edges; NumNodes
\* when there is no route (a simple route has fewer edges).
TrueDistance ==
    IF end_id \in Within({start_id}, NumNodes)
    THEN CHOOSE k \in 0 .. NumNodes :
            /\ end_id \in Within({start_id}, k)
            /\ \A j \in 0 .. (k - 1) : end_id \notin Within({start_id}, j)
    ELSE NumNodes

PathLength(p) == Len(p) - 1

NoRepeat(p) == \A a, b \in 1 .. Len(p) : a # b => p[a] # p[b]

BfsReturned == bfs_pc = "done"

\* C1: on a complete, symmetric graph, for start # end at true distance
\* d <= 2*maxDepth the solver returns a path with at most d edges.
C1_ShortestWithinBudget ==
    (BfsReturned /\ start_id # end_id /\ Symmetric
        /\ TrueDistance < NumNodes /\ TrueDistance <= 2 * max_depth)
    => /\ bfs_result.kind = "list"
       /\ PathLength(bfs_result.path) <= TrueDistance

\* The chain 1-2-3-4 with maxDepth = 3 has returned [1,2,3,4].
C1_Witness ==
    /\ BfsReturned /\ Symmetric /\ max_depth = 3 /\ end_id = 4
    /\ nbrs = NeighborLists({<<1, 2>>, <<2, 3>>, <<3, 4>>}, "both")
    /\ bfs_result = ReturnList(<<1, 2, 3, 4>>)

\* C2: a returned path for start # end runs from start to end over
\* reported edges and holds no node twice.
C2_ReturnedPathIsRealPath ==
    (BfsReturned /\ start_id # end_id /\ bfs_result.kind = "list")
    => LET p == bfs_result.path IN
       /\ Len(p) >= 2
       /\ p[1] = start_id
       /\ p[Len(p)] = end_id
       /\ \A k \in 1 .. (Len(p) - 1) : Reported(p[k], p[k + 1])
       /\ NoRepeat(p)

\* A path met in the middle: both sides contributed more than their root.
C2_Witness ==
    /\ BfsReturned /\ bfs_result.kind = "list"
    /\ Len(bfs_result.path) = 4
    /\ Cardinality(DOMAIN visited_fwd) >= 2
    /\ Cardinality(DOMAIN visited_bwd) >= 2

\* C3: with no connection inside the budget (no route at all, or none of at
\* most 2*maxDepth edges) the solver stops after maxDepth rounds with None.
C3_NotFoundWhenNoConnection ==
    /\ round <= max_depth
    /\ (BfsReturned /\ start_id # end_id
          /\ (TrueDistance = NumNodes \/ TrueDistance > 2 * max_depth))
       => bfs_result.kind = "none" /\ round = max_depth

\* A disconnected pair, both sides having explored, has returned None.
C3_Witness ==
    /\ BfsReturned /\ start_id # end_id /\ TrueDistance = NumNodes
    /\ bfs_result = ReturnNone
    /\ fetches >= 3

\* C4: the trivial case returns the path [start] with no fetch.
C4_TrivialReturnsStartPath ==
    (BfsReturned /\ start_id = end_id)
    => bfs_result = ReturnList(<<start_id>>) /\ fetches = 0

\* C5: a returned path has at most 2*maxDepth edges, whatever the
\* neighbour function.
C5_PathWithinTwiceDepth ==
    (BfsReturned /\ bfs_result.kind \in {"list", "pair"})
    => PathLength(bfs_result.path) <= 2 * max_depth

\* An asymmetric graph on which the returned path uses the whole budget.
C5_Witness ==
    /\ BfsReturned /\ ~Symmetric /\ bfs_result.kind = "list"
    /\ PathLength(bfs_result.path) = 2 * max_depth

(***************************************************************************)
(* The exploration session's states, read off the agent and the session    *)
(* record.                                                                 *)
(***************************************************************************)
Initialized == init_result = "true"

SessionState ==
    IF ~Initialized THEN "NotStarted"
    ELSE IF game_active THEN "Active"
    ELSE IF session_result.won THEN "Succeeded"
    ELSE IF session_result.reason = "Turn limit reached" THEN "TurnLimitExceeded"
    ELSE IF session_result.reason = "No more papers to explore" THEN "FrontierExhausted"
    ELSE "Unknown"

TerminalStates == {"Succeeded", "TurnLimitExceeded", "FrontierExhausted"}

\* start plus every node chosen so far: the walked path without the end
\* node that a success appends.
Expanded ==
    IF SessionState = "Succeeded"
    THEN Range(SubSeq(agent_path, 1, Len(agent_path) - 1))
    ELSE Range(agent_path)

\* C6: the end node is never a key of the Frontier.
C6_EndNeverInFrontier == end_id \notin frontier

\* C7: no node is both in the Frontier and expanded (start or chosen).
C7_FrontierDisjointFromExpanded == frontier \cap Expanded = {}

\* Two nodes have been chosen and the session goes on with a choice to make.
C7_Witness ==
    /\ SessionState = "Active"
    /\ Len(agent_path) = 3
    /\ frontier # {}

\* C8: an advance with an id that is not a Frontier key is rejected and
\* changes nothing: Frontier, Path, VisitedSet, turn count (turns remaining)
\* and session state are as before, in the web session (make_choice) and in
\* the LLM agent's loop (an iteration whose decision is not in the frontier).
C8_WebInvalidChoiceChangesNothing ==
    (init_result' = init_result /\ web_result'.error = "Invalid paper choice")
    => /\ ~web_result'.success
       /\ UNCHANGED <<frontier, agent_path, visited_nodes, current_turn,
                      max_turns, game_active, session_result, graph_nodes,
                      graph_edges>>

C8_LlmInvalidChoiceChangesNothing ==
    (llm_pc = "loop" /\ llm_pc' = "loop" /\ llm_last' = "not in frontier")
    => UNCHANGED <<llm_frontier, llm_path, llm_visited, llm_turn,
                   llm_max_turns, llm_nodes, llm_edges>>

C8_InvalidAdvanceChangesNothing ==
    [][C8_WebInvalidChoiceChangesNothing /\ C8_LlmInvalidChoiceChangesNothing]_vars

\* C9: in a terminal state every advance is refused as inactive and leaves
\* Frontier, Path, VisitedSet, turn count and state as they were.
C9_TerminalIsAbsorbing ==
    [][(SessionState \in TerminalStates)
         => (/\ web_result' = make_result(FALSE, "Game not active", FALSE, FALSE,
                                          "", 0, <<>>)
             /\ UNCHANGED <<frontier, agent_path, visited_nodes, current_turn,
                            game_active, session_result, graph_nodes, graph_edges>>
             /\ (SessionState \in TerminalStates)')]_vars

\* A session that ended with a non-empty Frontier has refused a later advance.
C9_Witness ==
    /\ SessionState \in TerminalStates
    /\ frontier # {}
    /\ web_result.error = "Game not active"

\* C10: advances that each use a Frontier id end the session within maxTurns
\* accepted calls: the accepted calls never pass maxTurns, after the
\* maxTurns-th the session is over, and an ended session is in exactly one
\* of the three terminal states.
C10_EndsWithinMaxTurns ==
    Initialized =>
        /\ current_turn <= max_turns
        /\ (current_turn >= 1 /\ current_turn = max_turns)
              => SessionState \in TerminalStates
        /\ ~game_active => SessionState \in TerminalStates

\* An accepted advance: make_choice got past its two rejections.
AcceptedAdvance == current_turn' = current_turn + 1

\* The node the accepted advance of this step chose.
ChosenNode == agent_path'[Len(agent_path) + 1]

\* C11: after a successful initialize and maxTurns accepted advances, none of
\* which found end, the session is TurnLimitExceeded and the walked Path has
\* exactly maxTurns + 1 nodes, start first.
C11_TurnLimitAfterMaxTurns ==
    (Initialized /\ current_turn = max_turns /\ SessionState # "Succeeded")
    => /\ SessionState = "TurnLimitExceeded"
       /\ Len(agent_path) = max_turns + 1
       /\ agent_path[1] = start_id

\* The node the LLM agent's iteration of this step expanded.
LlmExpandedStep == llm_pc = "loop" /\ llm_turn' = llm_turn + 1 /\ llm_last' = "expanded"

LlmChosenNode == llm_path'[Len(llm_path) + 1]

\* C12: when end is among the neighbours of the node chosen in an accepted
\* advance, the session becomes Succeeded and returns the previous path
\* followed by the chosen node and end, on the last permitted turn too; the
\* LLM agent's loop returns the same path as its agent path.
C12_WebEndFoundSucceeds ==
    (AcceptedAdvance /\ end_id \in Range(get_neighbors(ChosenNode)))
    => /\ SessionState' = "Succeeded"
       /\ agent_path' = agent_path \o <<ChosenNode, end_id>>
       /\ web_result'.success /\ web_result'.game_complete /\ web_result'.won
       /\ web_result'.path = agent_path'
       /\ web_result'.turns = current_turn'
       /\ session_result' = web_result'

C12_LlmEndFoundReturnsPath ==
    (LlmExpandedStep /\ end_id \in Range(get_neighbors(LlmChosenNode)))
    => /\ llm_pc' = "done"
       /\ llm_path' = llm_path \o <<LlmChosenNode, end_id>>
       /\ llm_result' = llm_return(TRUE, llm_path', FALSE, <<>>)

C12_EndFoundSucceeds ==
    [][C12_WebEndFoundSucceeds /\ C12_LlmEndFoundReturnsPath]_vars

\* A session that found end on its last permitted turn, the second.
C12_Witness ==
    /\ SessionState = "Succeeded"
    /\ max_turns >= 2
    /\ current_turn = max_turns
    /\ web_result.path = agent_path
    /\ Len(agent_path) = max_turns + 2

\* u and v are joined by an edge recorded in the list edges, in either direction.
Joined(edges, u, v) == <<u, v>> \in Range(edges) \/ <<v, u>> \in Range(edges)

\* Every consecutive pair of p is joined by an edge of the list edges.
WalksEdges(p, edges) ==
    \A k \in 1 .. (Len(p) - 1) : Joined(edges, p[k], p[k + 1])

\* C13: the Path of a session that ended Succeeded is a real path: every
\* consecutive pair of it is joined by an edge recorded in the PathGraph,
\* in the web session and in the LLM agent.
C13_SucceededPathWalksEdges ==
    /\ SessionState = "Succeeded" => WalksEdges(agent_path, graph_edges)
    /\ llm_result.has_agent_path => WalksEdges(llm_result.agent_path, llm_edges)

\* C14: after an accepted advance that does not find end, the session is
\* TurnLimitExceeded exactly when turn = maxTurns (an empty Frontier
\* included), FrontierExhausted exactly when turn < maxTurns and the Frontier
\* is empty, and Active otherwise.
C14_TerminalChecksAfterStep ==
    (Initialized /\ current_turn >= 1 /\ SessionState # "Succeeded")
    => /\ SessionState \in {"TurnLimitExceeded", "FrontierExhausted", "Active"}
       /\ SessionState = "TurnLimitExceeded" <=> current_turn = max_turns
       /\ SessionState = "FrontierExhausted"
             <=> (current_turn < max_turns /\ frontier = {})

\* The sequences of distinct nodes that run from start_id to end_id over at
\* least two edges.
ChainPaths ==
    {p \in UNION {[1 .. n -> Nodes] : n \in 3 .. NumNodes} :
        p[1] = start_id /\ p[Len(p)] = end_id /\ NoRepeat(p)}

ChainEdges(p) ==
    {e \in Pairs : \E k \in 1 .. (Len(p) - 1) :
        {e[1], e[2]} = {p[k], p[k + 1]}}

\* The provider's graph is the undirected chain p and nothing else, and
\* every node has metadata.
OnChain(p) == nbrs = NeighborLists(ChainEdges(p), "both") /\ meta = Nodes

\* C15: on an undirected chain v0 - v1 - ... - vd from start to end, d >= 2,
\* choosing v1, v2, ... in order ends Succeeded with Path = [v0..vd] after
\* d-1 turns when maxTurns >= d-1, and TurnLimitExceeded with walked Path
\* [v0..v_maxTurns] when maxTurns < d-1; until then the session is Active.
C15_ChainScenario ==
    \A p \in ChainPaths :
        (OnChain(p) /\ Initialized)
        => LET d == Len(p) - 1
               last == IF max_turns >= d - 1 THEN d - 1 ELSE max_turns
           IN /\ current_turn <= last
              /\ current_turn < last
                    => /\ SessionState = "Active"
                       /\ agent_path = SubSeq(p, 1, current_turn + 1)
              /\ (current_turn = last /\ max_turns >= d - 1)
                    => SessionState = "Succeeded" /\ agent_path = p
              /\ (current_turn = last /\ max_turns < d - 1)
                    => /\ SessionState = "TurnLimitExceeded"
                       /\ agent_path = SubSeq(p, 1, max_turns + 1)

\* C16: the result of the advance that ends a session TurnLimitExceeded or
\* FrontierExhausted holds the walked Path (start and every chosen node),
\* which is not empty, the termination reason and the turns used.
C16_LostResultExposesWalkedPath ==
    SessionState \in {"TurnLimitExceeded", "FrontierExhausted"}
    => /\ session_result.path = agent_path
       /\ session_result.path # <<>>
       /\ session_result.reason # ""
       /\ session_result.turns = current_turn

\* C17: when the metadata of start or of end cannot be fetched, initialize
\* returns an error result and the client is sent an error, no neighbour is
\* expanded, and the Frontier and the walked Path stay empty; the LLM agent
\* returns (None, None) with nothing expanded.
C17_MissingEndpointAborts ==
    (start_id \notin meta \/ end_id \notin meta)
    => /\ init_result # "none"
          => /\ init_result = "false"
             /\ last_message = "error"
             /\ frontier = {} /\ agent_path = <<>>
             /\ visited_nodes = {} /\ graph_edges = <<>>
             /\ graph_nodes = EmptyMap
             /\ current_turn = 0
             /\ ~web_result.success
       /\ llm_pc # "new"
          => /\ llm_pc = "done"
             /\ llm_result = llm_return(FALSE, <<>>, FALSE, <<>>)
             /\ llm_frontier = {} /\ llm_path = <<>>
             /\ llm_visited = {} /\ llm_edges = <<>>
             /\ llm_nodes = EmptyMap

\* initialize has failed for want of the end paper's metadata although the
\* start paper has neighbours to expand.
C17_Witness ==
    /\ init_result = "false"
    /\ get_paper_by_id(start_id) /\ ~get_paper_by_id(end_id)
    /\ get_neighbors(start_id) # <<>>
    /\ last_message = "error"

\* The accepted advances a walked path stands for: its nodes after start,
\* less the end node that a success appends.
ChoicesIn(path) ==
    Len(path) - 1 - (IF SessionState = "Succeeded" THEN 1 ELSE 0)

\* C18: the expansion of start during initialize is not a turn: right after
\* a successful initialize the neighbours of start are discovered, the turn
\* count is 0 and Path = [start]; the turn count is the number of accepted
\* advances, so the first of them makes it 1.
C18_StartExpansionIsNoTurn ==
    Initialized
    => /\ current_turn = ChoicesIn(agent_path)
       /\ current_turn = 0
             => /\ agent_path = <<start_id>>
                /\ Range(get_neighbors(start_id)) \subseteq visited_nodes
       /\ agent_path[1] = start_id

\* The first advance has been accepted and the session goes on.
C18_Witness ==
    /\ SessionState = "Active"
    /\ current_turn = 1
    /\ Len(agent_path) = 2
    /\ web_result.success

\* C19: for every maxTurns >= 0 the number of accepted advances (the turn
\* counter) never exceeds maxTurns; with maxTurns = 0 no advance is accepted
\* and no node is expanded.
C19_TurnsNeverExceedMaxTurns ==
    Initialized
    => /\ current_turn <= max_turns
       /\ max_turns = 0 => agent_path = <<start_id>>

(***************************************************************************)
(* The solver as a function of the neighbour lists: the value              *)
(* find_shortest_path_bfs returns when get_neighbors answers lists[id].    *)
(***************************************************************************)
\* graph_search.py:46-65: _bfs_step over the left nodes of the level.
RECURSIVE BfsStepOn(_, _, _, _, _, _)
BfsStepOn(lists, left, queue, visited_self, visited_other, backward) ==
    IF left = 0
    THEN [found |-> <<>>, visited |-> visited_self, queue |-> queue]
    ELSE LET current_id == Head(queue)
             r == ScanNeighbors(lists[current_id], 1, visited_self[current_id],
                                visited_self, visited_other, Tail(queue), backward)
         IN IF r.found # <<>> THEN r
            ELSE BfsStepOn(lists, left - 1, r.queue, r.visited, visited_other,
                           backward)

\* graph_search.py:28-38: the rounds from round i on.
RECURSIVE BfsRoundsOn(_, _, _, _, _, _)
BfsRoundsOn(lists, i, qf, vf, qb, vb) ==
    IF i >= max_depth THEN ReturnNone
    ELSE LET fwd == BfsStepOn(lists, Len(qf), qf, vf, vb, FALSE) IN
         IF fwd.found # <<>> THEN ReturnList(fwd.found)
         ELSE LET bwd == BfsStepOn(lists, Len(qb), qb, vb, fwd.visited, TRUE) IN
              IF bwd.found # <<>> THEN ReturnList(bwd.found)
              ELSE BfsRoundsOn(lists, i + 1, fwd.queue, fwd.visited,
                               bwd.queue, bwd.visited)

\* graph_search.py:16-38: find_shortest_path_bfs.
find_shortest_path_on(lists) ==
    IF start_id = end_id THEN ReturnPair(<<start_id>>)
    ELSE BfsRoundsOn(lists, 0, <<start_id>>, (start_id :> <<start_id>>),
                     <<end_id>>, (end_id :> <<end_id>>))

\* The provider's lists with the list of every failing node emptied.
ListsWithFailedEmptied ==
    [u \in Nodes |-> IF u \in failing THEN <<>> ELSE nbrs[u]]

\* C20: a neighbour fetch that fails for one node is treated as that node
\* having no neighbours: the solver goes on with the rest of the level and
\* the later levels, and returns what it returns when that node's list is
\* empty.
C20_FailedFetchIsEmptyList ==
    BfsReturned
    => /\ bfs_result.kind \in {"list", "pair", "none"}
       /\ bfs_result = find_shortest_path_on(ListsWithFailedEmptied)

\* The fetch of a node with neighbours failed in the first round, the solver
\* went on for another round and found a path around that node.
C20_Witness ==
    /\ BfsReturned
    /\ bfs_result.kind = "list"
    /\ round >= 1
    /\ \E x \in failing :
          /\ nbrs[x] # <<>>
          /\ x \in DOMAIN visited_fwd \cup DOMAIN visited_bwd
          /\ x \notin {start_id, end_id}
          /\ x \notin Range(bfs_result.path)

\* C21: initialize_game and make_choice never let an exception out: whatever
\* the provider does, a call that raises included, initialize_game returns
\* True or False and make_choice returns a result; when a provider call
\* raised, the value is False or an error result and the client is sent an
\* error.
C21_NoExceptionEscapes ==
    /\ init_result \in {"none", "true", "false"}
    /\ web_result.error # "raised"
    /\ web_result.error = "Failed to process choice"
          => ~web_result.success /\ last_message = "error"
    /\ (init_result # "none"
          /\ (raises_paper(start_id) \/ raises_paper(end_id)
                \/ raises_neighbors(start_id)))
          => init_result = "false" /\ last_message = "error"

\* A make_choice whose neighbours call raised has returned its error result.
C21_Witness ==
    /\ Initialized
    /\ web_result = make_choice_except
    /\ current_turn >= 1

\* C22: an advance whose fetch fails mid-step leaves no half-applied step:
\* Frontier, Path, VisitedSet and turn count are as before that advance.
C22_AbortedAdvanceChangesNothing ==
    [][web_result' = make_choice_except
         => UNCHANGED <<frontier, agent_path, visited_nodes, current_turn>>]_vars

(***************************************************************************)
(* Claims about the data provider's request loop.                          *)
(***************************************************************************)
\* The call returned because a transient failure used up the retries.
RetriesExhausted ==
    /\ req_pc = "returned"
    /\ responses[Len(responses)] \in Transient

\* C23: the value returned after the retries are exhausted on a transient
\* failure differs from the value returned for a node that does not exist
\* (404).
C23_TransientDistinctFromNotFound ==
    RetriesExhausted => req_result # not_found_value

\* C24: a 404 is terminal: when a 404 has been received it is the last
\* response of the call and the call has returned, so no attempt follows it,
\* whatever responses came before.
C24_NotFoundIsTerminal ==
    \A i \in 1 .. Len(responses) :
        responses[i] = "404" => i = Len(responses) /\ req_pc = "returned"

\* A call that retried transient failures and then received a 404.
C24_Witness ==
    /\ req_pc = "returned"
    /\ Len(responses) >= 3
    /\ responses[Len(responses)] = "404"
    /\ attempts = Len(responses) - 1

(***************************************************************************)
(* Claims about the two session engines run side by side.                  *)
(***************************************************************************)
\* The web session is over: a make_choice returned a game-complete result.
WebEnded == ~game_active /\ web_result.game_complete

\* find_path returned the pair (agent_path, None).
LlmSucceeded == llm_result.has_agent_path

\* C25: for max_turns >= 1 and the same choices, each in the frontier when
\* made, the web session and find_path's loop have the same frontier and
\* walked path after every turn that ends neither, and when find_path has
\* returned the web session is over too, with the same outcome and the same
\* walked path; when the web session is over find_path asks for no further
\* decision.
C25_SameEngineForBothCallers ==
    (Initialized /\ max_turns >= 1) =>
        /\ (InStep /\ game_active)
              => frontier = llm_frontier /\ agent_path = llm_path
        /\ (InStep /\ ~game_active)
              => llm_frontier = {} \/ llm_turn >= llm_max_turns
        /\ llm_pc = "done" =>
              /\ WebEnded
              /\ web_result.won <=> LlmSucceeded
              /\ web_result.won => llm_result.agent_path = web_result.path
              /\ ~web_result.won => llm_result.full_path = agent_path

(***************************************************************************)
(* Claims about runs on an agent object that has run before.               *)
(***************************************************************************)
\* What the initialization of a run discovers on an agent that holds
\* nothing: the start expansion of initialize_game, and that of find_path.
FreshNodes == add_node(add_node(EmptyMap, start_id, TRUE, "start"),
                       end_id, TRUE, "end")

FreshState == [edges |-> <<>>, visited |-> {start_id},
               nodes |-> FreshNodes, frontier |-> {}]

FreshWeb == InitNeighbors(get_neighbors(start_id), 1, FreshState)

FreshLlm == LlmInitNeighbors(get_neighbors(start_id), 1, FreshState)

\* initialize_game has just returned True.
WebRunBegun == Initialized /\ last_message = "game_initialized"

\* find_path has just entered its loop.
LlmRunBegun == llm_pc = "loop" /\ llm_turn = 0

\* C26: a run begins with the path [start], turn 0 and a visited set,
\* frontier and graph holding only what its own initialization discovers,
\* also when the agent object has run before.
C26_RunBeginsWithNothingOfEarlierRuns ==
    /\ WebRunBegun =>
          /\ agent_path = <<start_id>>
          /\ current_turn = 0
          /\ visited_nodes = FreshWeb.visited
          /\ frontier = FreshWeb.frontier
          /\ graph_nodes = FreshWeb.nodes
          /\ graph_edges = FreshWeb.edges
    /\ LlmRunBegun =>
          /\ llm_path = <<start_id>>
          /\ llm_visited = FreshLlm.visited
          /\ llm_frontier = FreshLlm.frontier
          /\ llm_nodes = FreshLlm.nodes
          /\ llm_edges = FreshLlm.edges

\* C27: an active session has a non-empty frontier; in particular a session
\* whose start expansion puts nothing in the frontier is FrontierExhausted,
\* not Active, once initialize_game has returned.
C27_ActiveSessionHasFrontier ==
    /\ SessionState = "Active" => frontier # {}
    /\ (WebRunBegun /\ FreshWeb.frontier = {})
          => SessionState = "FrontierExhausted"

(***************************************************************************)
(* Claims about the order in which the solver expands nodes.               *)
(***************************************************************************)
\* The depth of a queued node on its side: its stored route has depth + 1
\* nodes.
DepthIn(visited, n) == Len(visited[n]) - 1

\* The first "left" nodes of the queue are the rest of the level of the given
\* depth; every node behind them was enqueued during this level and is one
\* deeper.
LevelThenNext(queue, visited, left, depth) ==
    /\ left <= Len(queue)
    /\ \A i \in 1 .. Len(queue) :
          DepthIn(visited, queue[i]) = IF i <= left THEN depth ELSE depth + 1

\* C28: in round number "round" the forward step expands exactly the nodes
\* of depth "round" that were queued when it began, and the backward side
\* is not touched meanwhile; the backward step begins only when none of
\* them is left, and likewise expands only the nodes queued when it began.
\* The node expanded next is the head of the queue, so a node enqueued
\* during a level (one deeper) is never expanded in that level.
C28_LevelByLevel ==
    /\ bfs_pc = "fwd" =>
          /\ LevelThenNext(q_fwd, visited_fwd, level_left, round)
          /\ LevelThenNext(q_bwd, visited_bwd, Len(q_bwd), round)
    /\ bfs_pc = "bwd" =>
          /\ LevelThenNext(q_fwd, visited_fwd, 0, round)
          /\ LevelThenNext(q_bwd, visited_bwd, level_left, round)

\* The backward step of the second round has been entered after a forward
\* level of at least two nodes (two fetches in the first round, at least two
\* more in the forward step of the second).
C28_Witness ==
    /\ bfs_pc = "bwd"
    /\ round = 1
    /\ fetches >= 4

(***************************************************************************)
(* Claims about the step on which the solver returns.                      *)
(***************************************************************************)
\* Positions in the list of the neighbours already in the other side's map.
HitsIn(neighbors, visited_other) ==
    {k \in 1 .. Len(neighbors) : neighbors[k] \in DOMAIN visited_other}

FirstOf(S) == CHOOSE k \in S : \A j \in S : k <= j

\* What one expansion must do, given the side it runs on: with no neighbour
\* in the other side's map it does not return; otherwise it returns the
\* route of the expanded node joined to the other side's route of the first
\* such neighbour, after that one fetch, and no neighbour listed behind it
\* is recorded.
ReturnsAtFirstHit(queue, visited_self, visited_self_after, visited_other, backward) ==
    LET current_id == Head(queue)
        neighbors == get_neighbors(current_id)
        hits == HitsIn(neighbors, visited_other)
    IN /\ fetches' = fetches + 1
       /\ IF hits = {}
          THEN bfs_result' = bfs_result
          ELSE LET first == FirstOf(hits)
                   meeting == neighbors[first]
                   own == visited_self[current_id]
                   other == visited_other[meeting]
               IN /\ bfs_pc' = "done"
                  /\ bfs_result'.kind = "list"
                  /\ bfs_result'.path =
                        IF backward THEN other \o Reverse(own)
                        ELSE own \o Reverse(other)
                  /\ meeting \in Range(bfs_result'.path)
                  /\ DOMAIN visited_self_after =
                        DOMAIN visited_self
                           \cup {neighbors[j] : j \in 1 .. first - 1}

\* C29: the expansion that first sees a neighbour already in the other
\* side's visited map, going through the queue in order and through the
\* provider's list in order, returns the path through that neighbour, and
\* nothing is fetched once the solver has returned.
C29_ReturnsAtFirstIntersection ==
    [][/\ (bfs_pc = "fwd" /\ level_left > 0)
             => ReturnsAtFirstHit(q_fwd, visited_fwd, visited_fwd',
                                  visited_bwd, FALSE)
       /\ (bfs_pc = "bwd" /\ level_left > 0)
             => ReturnsAtFirstHit(q_bwd, visited_bwd, visited_bwd',
                                  visited_fwd, TRUE)
       /\ bfs_pc = "done" => fetches' = fetches]_vars

\* The solver returned a path of at least four nodes: the intersection was
\* seen in the second round or later.
C29_Witness ==
    /\ bfs_pc = "done"
    /\ bfs_result.kind = "list"
    /\ Len(bfs_result.path) >= 4
    /\ fetches >= 3

(***************************************************************************)
(* Claims about the solver's visited maps.                                 *)
(***************************************************************************)
\* Every key of the map other than the root was listed as a neighbour of a
\* key of the map, its parent, and its route is the parent's route with the
\* key appended; the root's route is the root alone.
ParentClosed(visited, root) ==
    \A key \in DOMAIN visited :
        LET route == visited[key] IN
        IF key = root THEN route = <<root>>
        ELSE /\ Len(route) >= 2
             /\ route[Len(route)] = key
             /\ route[1] = root
             /\ LET parent == route[Len(route) - 1] IN
                   /\ parent \in DOMAIN visited
                   /\ visited[parent] = SubSeq(route, 1, Len(route) - 1)
                   /\ key \in Range(get_neighbors(parent))

\* C30: at every point of the solver both visited maps are parent-closed,
\* the forward one from start_id and the backward one from end_id (the maps
\* exist once the solver is past its start_id = end_id test).
C30_VisitedMapsParentClosed ==
    (bfs_pc # "start" /\ start_id # end_id) =>
        /\ start_id \in DOMAIN visited_fwd
        /\ end_id \in DOMAIN visited_bwd
        /\ ParentClosed(visited_fwd, start_id)
        /\ ParentClosed(visited_bwd, end_id)

\* The forward map holds a node two steps from the start, recorded while
\* its parent, one step from the start, was expanded.
C30_Witness ==
    /\ bfs_pc # "start"
    /\ start_id # end_id
    /\ \E key \in DOMAIN visited_fwd : Len(visited_fwd[key]) = 3

(***************************************************************************)
(* Claims about the PaperGraph's edge list.                                *)
(***************************************************************************)
\* The two ends of an edge, without their order.
Ends(edge) == {edge[1], edge[2]}

\* C31: the session's edge collection holds at most one edge for any
\* unordered pair of nodes, also when each of the two lists the other as a
\* neighbour.
C31_OneEdgePerUnorderedPair ==
    \A i, j \in 1 .. Len(graph_edges) :
        i # j => Ends(graph_edges[i]) # Ends(graph_edges[j])

C33_FailedInitializeLeavesInactive ==
    (init_result = "false" /\ (start_id \notin meta \/ end_id \notin meta))
    => /\ ~game_active
       /\ web_result # NoCall
             => ~web_result.success /\ web_result.error = "Game not active"

\* C34: while the solver runs on start_id # end_id, no node is a key of both
\* visited maps.
C34_VisitedSetsDisjoint ==
    start_id # end_id => DOMAIN visited_fwd \cap DOMAIN visited_bwd = {}

\* Both sides have recorded nodes beyond their roots.
C34_Witness ==
    /\ start_id # end_id
    /\ Cardinality(DOMAIN visited_fwd) >= 2
    /\ Cardinality(DOMAIN visited_bwd) >= 2

\* C35: while the session is Active the walked path starts with start_id,
\* holds no node twice and has current_turn + 1 elements.
C35_ActivePathShape ==
    SessionState = "Active" =>
        /\ Len(agent_path) = current_turn + 1
        /\ agent_path[1] = start_id
        /\ NoRepeat(agent_path)

\* An active session after two accepted advances.
C35_Witness ==
    /\ SessionState = "Active"
    /\ current_turn = 2
    /\ Len(agent_path) = 3

\* C36: whatever the interleaving of overlapping make_choice calls on one
\* session, a paper id is accepted at most once: no id occurs twice among the
\* accepted choices, two calls in flight never work on the same id, and the
\* turn counter has advanced exactly once per accepted choice.
C36_SameIdAcceptedOnce ==
    /\ NoRepeat(accepted)
    /\ current_turn = Len(accepted)
    /\ \A c, d \in Calls :
           (c # d /\ call_pc[c] \in {"neighbors", "papers"}
                  /\ call_pc[d] \in {"neighbors", "papers"})
           => call_paper[c] # call_paper[d]

\* The second of two overlapping calls with the same id was rejected while the
\* first is still waiting for its neighbours.
C36_Witness ==
    /\ call_pc[1] = "neighbors"
    /\ call_pc[2] = "returned"
    /\ call_paper[2] = call_paper[1]
    /\ web_result # NoCall
    /\ web_result.error = "Invalid paper choice"
    /\ accepted = <<call_paper[1]>>
    /\ current_turn = 1

\* C37: whatever the interleaving of overlapping make_choice calls on one
\* session, the session reports at most one game-complete result, the end
\* paper is appended to the path at most once, and once the session is
\* terminal its frontier, path and turn counter no longer change.
C37_OneTerminalResult ==
    /\ [](/\ terminal_results <= 1
          /\ Cardinality({i \in 1 .. Len(agent_path) : agent_path[i] = end_id}) <= 1)
    /\ [][(Initialized /\ ~game_active)
          => UNCHANGED <<frontier, agent_path, current_turn>>]_vars

\* C38: LLM runs share no run state: two started runs never have the same
\* run id (each has its own record), the background task of a run works on
\* the record that run stored, and no agent instance serves two runs, also
\* when the runs start within the same second.
C38_EachRunOwnRecord ==
    /\ \A r, q \in Starts :
           (r # q /\ run_pc[r] \in {"broadcast", "scheduled", "done"}
                  /\ run_pc[q] \in {"broadcast", "scheduled", "done"})
           => run_key[r] # run_key[q]
    /\ \A r \in Starts : served[r] \in {0, r}
    /\ \A r \in Starts : agent_calls[r] <= 1

\* C39: add_run calls from concurrent threads lose no update: whenever the
\* lock is free, the stored list is the initial list followed by the runs of
\* the calls that returned True, in the order the calls acquired the lock,
\* cut to its last 1000 entries.
C39_NoLostRuns ==
    lock = 0 =>
        /\ file_ok
        /\ file_runs = keep_last(initial_runs \o
               SelectSeq(lock_order, LAMBDA t : add_result[t] = "true"))

=============================================================================
